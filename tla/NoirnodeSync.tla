---------------------------- MODULE NoirnodeSync ----------------------------
(***************************************************************************)
(* CNoirnodeSync: how a node fetches the sporks, the list of noirnodes and *)
(* the payment votes from its peers, one stage after the other.            *)
(* ProcessTick is called by one thread every few seconds; other threads    *)
(* call Reset, SwitchToNextAsset and IsBlockchainSynced.  The class has no *)
(* lock: ProcessTick is cut wherever another thread can change what it has *)
(* read before it uses it.  Accesses stay in one step when whatever comes  *)
(* between them might as well come before or after them.                   *)
(*                                                                         *)
(* The clock is abstracted: quiet counts the ticks since the timestamp the *)
(* current stage looks at, and an action ends the life of a fulfilled      *)
(* request, or of a request for the list.                                  *)
(***************************************************************************)
EXTENDS Naturals, FiniteSets

CONSTANTS
    Peers,              \* connections (CNode), without the temporary ones to noirnodes, which
                        \* ProcessTick skips
    Addrs, Addr,        \* the addresses of the peers, and that of each connection
    Updated,            \* connections with at least GetMinNoirnodePaymentsProto()
    NoPeer,
    Timeout,            \* the ticks within NOIRNODE_SYNC_TIMEOUT_SECONDS, and in the cooldown
    MaxAttempt          \* bound: more requests in one stage are not told apart

ASSUME PeersAssumption == /\ Addr \in [Peers -> Addrs] /\ Updated \subseteq Peers /\ NoPeer \notin Peers
                          /\ Timeout \in Nat \ {0} /\ MaxAttempt \in Nat \ {0, 1}

VARIABLES
    nRequestedNoirnodeAssets, nRequestedNoirnodeAttempt,
    quiet,              \* ticks since nTimeLastNoirnodeList, nTimeLastPaymentVote or
                        \* nTimeLastFailure, whichever the stage looks at
    fBlockchainSynced,
    mapFulfilledRequests,       \* pairs of an address and a request, not yet out of date
    mWeAskedForNoirnodeList,    \* addresses asked less than DSEG_UPDATE_SECONDS ago
    vNodes,             \* the connected peers
    noirnodes,          \* whether CountNoirnodes() is not 0
    owed,               \* peers that have not yet answered a request for the list
    tick,               \* where ProcessTick is, and what it holds in its variables
    zeroing,            \* a call of another thread has set the stage and not yet the count
    asked               \* history: the stages whose asset a peer was asked for since the
                        \* last sync began (for the list, or less than three hours
                        \* before), and all once the user has moved it on

syncVars == <<nRequestedNoirnodeAssets, nRequestedNoirnodeAttempt, quiet>>
askVars == <<mapFulfilledRequests, mWeAskedForNoirnodeList, owed>>
world == <<fBlockchainSynced, vNodes, noirnodes>>
vars == <<syncVars, askVars, asked, world, tick, zeroing>>

Stages == {"failed", "initial", "sporks", "list", "mnw", "finished"}
Requests == {"spork-sync", "noirnode-list-sync", "noirnode-payment-sync"}
IsSynced == nRequestedNoirnodeAssets = "finished"

-----------------------------------------------------------------------------
(* The variables of ProcessTick: the stage it has read or is to write, where *)
(* SwitchToNextAsset returns to, the count it has read, the peer it looks at *)
(* and those left in its copy of vNodes.                                     *)

Idle == [at |-> "idle", seen |-> "none", back |-> "idle", loaded |-> 0, peer |-> NoPeer,
         left |-> {}]
At(place) == [Idle EXCEPT !.at = place]
Switch(back) == [Idle EXCEPT !.at = "read", !.back = back]
Write(stage, back) == [Idle EXCEPT !.at = "write", !.seen = stage, !.back = back]

\* Mutant of Loop: the end of the loop is not noticed.
LoopOn(S) == [Idle EXCEPT !.at = "peers", !.left = S]

\* The next round of the loop over the peers, or its end.
Loop(S) == IF S = {} THEN Idle ELSE [Idle EXCEPT !.at = "peers", !.left = S]

Init ==
    /\ nRequestedNoirnodeAssets = "initial" /\ nRequestedNoirnodeAttempt = 0 /\ quiet = 0
    /\ fBlockchainSynced = FALSE
    /\ mapFulfilledRequests = {} /\ mWeAskedForNoirnodeList = {} /\ owed = {}
    /\ vNodes = {} /\ noirnodes = FALSE
    /\ tick = Idle /\ zeroing = FALSE /\ asked = {}

-----------------------------------------------------------------------------
(* The stages.                                                             *)

\* TRY_LOCK(cs_vNodes) may fail; only connected peers are forgotten.
ClearFulfilledRequests ==
    \/ mapFulfilledRequests' = {r \in mapFulfilledRequests : \A p \in vNodes : r[1] # Addr[p]}
    \/ UNCHANGED mapFulfilledRequests
LookAtMarks == IF nRequestedNoirnodeAssets = "initial"
               THEN ClearFulfilledRequests ELSE UNCHANGED mapFulfilledRequests

\* Mutant of AttemptAfterSwitch: the count goes on in the next stage.
AttemptGoesOn == nRequestedNoirnodeAttempt

AttemptAfterSwitch == 0

NextAsset == [initial |-> "sporks", sporks |-> "list", list |-> "mnw", mnw |-> "finished",
              finished |-> "none"]

\* SwitchToNextAsset of ProcessTick: it looks at the stage, which another thread
\* may have changed since ProcessTick did, and then sets the next one.
ReadStage ==
    /\ tick.at = "read"
    /\ tick' = Write(NextAsset[nRequestedNoirnodeAssets], tick.back)
    /\ LookAtMarks
    /\ UNCHANGED <<syncVars, mWeAskedForNoirnodeList, owed, asked, world, zeroing>>

\* The end of SwitchToNextAsset, and Reset.  Other threads do not read the count.
\* A sync begins with the sporks.
WriteStage ==
    /\ tick.at = "write" /\ tick' = At(tick.back)
    /\ IF tick.seen = "none" THEN UNCHANGED <<nRequestedNoirnodeAssets, quiet>>
       ELSE nRequestedNoirnodeAssets' = tick.seen /\ quiet' = 0
    /\ nRequestedNoirnodeAttempt' = AttemptAfterSwitch
    /\ IF tick.seen = "sporks" THEN asked' = {} ELSE UNCHANGED asked
    /\ UNCHANGED <<askVars, world, zeroing>>

-----------------------------------------------------------------------------
(* ProcessTick.                                                            *)

\* IsBlockchainSynced(): what it returns, and remembers.  It may find that
\* enough peers are at this node's height, or that its tip is recent.
IsBlockchainSynced(synced) ==
    /\ fBlockchainSynced => synced
    /\ fBlockchainSynced' = synced

\* A tick later, CountNoirnodes.  Nothing looks at a timestamp in the other stages.
CountNoirnodes ==
    /\ tick.at = "idle" /\ tick' = At(IF noirnodes THEN "some" ELSE "empty")
    /\ quiet' = IF nRequestedNoirnodeAssets \in {"list", "mnw", "failed"} /\ quiet <= Timeout
                THEN quiet + 1 ELSE quiet
    /\ UNCHANGED <<nRequestedNoirnodeAssets, nRequestedNoirnodeAttempt, askVars, asked, world,
                   zeroing>>

\* Mutant of RestartsSync: a node that has lost its list stays synced.
RestartsWhenFailed == nRequestedNoirnodeAssets = "failed" /\ quiet > Timeout

\* Mutant of RestartsSync: a failed sync stays failed.
RestartsWhenLost == IsSynced /\ tick.at = "empty"

RestartsSync ==
    \/ IsSynced /\ tick.at = "empty"
    \/ nRequestedNoirnodeAssets = "failed" /\ quiet > Timeout

\* A synced node with noirnodes does nothing.  A failed one waits until its
\* cooldown is over, and once it is reset for the next tick.
BeginTick ==
    /\ tick.at \in {"some", "empty"}
    /\ \/ RestartsSync /\ tick' = Write("initial", IF IsSynced THEN "chain" ELSE "idle")
       \/ /\ ~RestartsSync /\ nRequestedNoirnodeAssets \in {"finished", "failed"}
          /\ tick' = Idle
       \/ nRequestedNoirnodeAssets \notin {"finished", "failed"} /\ tick' = At("chain")
    /\ UNCHANGED <<syncVars, askVars, asked, world, zeroing>>

\* Nothing times out while blocks are still being fetched.
CheckChain ==
    /\ tick.at = "chain"
    /\ \E synced \in BOOLEAN :
          /\ IsBlockchainSynced(synced)
          /\ IF ~synced /\ nRequestedNoirnodeAssets \notin {"failed", "initial", "sporks"}
             THEN quiet' = 0 /\ tick' = Idle
             ELSE UNCHANGED quiet /\ tick' = At("switch")
    /\ UNCHANGED <<nRequestedNoirnodeAssets, nRequestedNoirnodeAttempt, askVars, asked, vNodes,
                   noirnodes, zeroing>>

\* The first stage is left at once, that of the sporks when the chain is synced.
SwitchStage ==
    /\ tick.at = "switch"
    /\ tick' = CASE nRequestedNoirnodeAssets = "initial" -> Switch("copy")
                 [] nRequestedNoirnodeAssets = "sporks" -> At("sporks")
                 [] OTHER -> At("copy")
    /\ UNCHANGED <<syncVars, askVars, asked, world, zeroing>>

LeaveSporks ==
    /\ tick.at = "sporks"
    /\ \E synced \in BOOLEAN : /\ IsBlockchainSynced(synced)
                              /\ tick' = IF synced THEN Switch("copy") ELSE At("copy")
    /\ UNCHANGED <<syncVars, askVars, asked, vNodes, noirnodes, zeroing>>

CopyNodeVector ==
    /\ tick.at = "copy" /\ tick' = Loop(vNodes)
    /\ UNCHANGED <<syncVars, askVars, asked, world, zeroing>>

Fulfilled(p, request) == <<Addr[p], request>> \in mapFulfilledRequests
AddFulfilledRequest(p, request) ==
    mapFulfilledRequests' = mapFulfilledRequests \cup {<<Addr[p], request>>}

\* Each peer is asked for the sporks first, and for nothing else in that tick.
LookAtPeer(p) ==
    /\ tick.at = "peers" /\ p \in tick.left
    /\ \/ /\ ~Fulfilled(p, "spork-sync") /\ AddFulfilledRequest(p, "spork-sync")
          /\ tick' = Loop(tick.left \ {p})
       \/ /\ Fulfilled(p, "spork-sync") /\ UNCHANGED mapFulfilledRequests
          /\ tick' = [tick EXCEPT !.at = "look", !.peer = p, !.left = @ \ {p}]
    /\ UNCHANGED <<syncVars, mWeAskedForNoirnodeList, owed, asked, world, zeroing>>

\* The stage and its timestamp.
LookAtStage ==
    /\ tick.at = "look"
    /\ tick' = IF nRequestedNoirnodeAssets \notin {"list", "mnw"} THEN Loop(tick.left)
               ELSE IF quiet > Timeout THEN At("timeout")
               ELSE [tick EXCEPT !.at = "ask", !.seen = nRequestedNoirnodeAssets]
    /\ UNCHANGED <<syncVars, askVars, asked, world, zeroing>>

\* The timestamp is too old: Fail, or on to the next stage if a peer was asked.
TimeOut ==
    /\ tick.at = "timeout"
    /\ IF nRequestedNoirnodeAttempt = 0
       THEN nRequestedNoirnodeAssets' = "failed" /\ quiet' = 0 /\ tick' = Idle
       ELSE UNCHANGED <<nRequestedNoirnodeAssets, quiet>> /\ tick' = Switch("idle")
    /\ UNCHANGED <<nRequestedNoirnodeAttempt, askVars, asked, world, zeroing>>

\* IsEnoughData() may find enough votes once two requests have been made.
EnoughData ==
    /\ tick.at = "ask" /\ tick.seen = "mnw" /\ nRequestedNoirnodeAttempt > 1
    /\ tick' = Switch("idle")
    /\ UNCHANGED <<syncVars, askVars, asked, world, zeroing>>

\* A peer is asked once for the asset of the stage, and not if it is too old.
Ask ==
    /\ tick.at = "ask"
    /\ LET request == IF tick.seen = "list" THEN "noirnode-list-sync" ELSE "noirnode-payment-sync"
       IN  IF Fulfilled(tick.peer, request)
           THEN UNCHANGED mapFulfilledRequests /\ tick' = Loop(tick.left)
           ELSE /\ AddFulfilledRequest(tick.peer, request)
                /\ tick' = IF tick.peer \in Updated THEN [tick EXCEPT !.at = "count", !.left = {}]
                           ELSE Loop(tick.left)
    /\ UNCHANGED <<syncVars, mWeAskedForNoirnodeList, owed, asked, world, zeroing>>

\* nRequestedNoirnodeAttempt++ reads the count and then writes it.
LoadAttempt ==
    /\ tick.at = "count"
    /\ tick' = [tick EXCEPT !.at = "store", !.loaded = nRequestedNoirnodeAttempt]
    /\ UNCHANGED <<syncVars, askVars, asked, world, zeroing>>

\* CNoirnodeMan::DsegUpdate: no second request to a peer within three hours.
DsegUpdate(p) ==
    /\ mWeAskedForNoirnodeList' = mWeAskedForNoirnodeList \cup {Addr[p]}
    /\ owed' = IF Addr[p] \in mWeAskedForNoirnodeList THEN owed ELSE owed \cup ({p} \cap vNodes)

\* The request itself, with which the tick ends.
CountAndSend ==
    /\ tick.at = "store" /\ tick' = Idle
    /\ nRequestedNoirnodeAttempt' = IF tick.loaded = MaxAttempt THEN MaxAttempt
                                    ELSE tick.loaded + 1
    /\ IF tick.seen = "list" THEN DsegUpdate(tick.peer)
       ELSE UNCHANGED <<mWeAskedForNoirnodeList, owed>>
    /\ asked' = asked \cup {tick.seen}
    /\ UNCHANGED <<nRequestedNoirnodeAssets, quiet, mapFulfilledRequests, world, zeroing>>

ProcessTick ==
    \/ CountNoirnodes \/ BeginTick \/ CheckChain \/ SwitchStage \/ LeaveSporks
    \/ ReadStage \/ WriteStage \/ CopyNodeVector \/ \E p \in Peers : LookAtPeer(p)
    \/ LookAtStage \/ TimeOut \/ EnoughData \/ Ask \/ LoadAttempt \/ CountAndSend

-----------------------------------------------------------------------------
(* The other threads, the peers and the clock.                             *)

\* IsBlockchainSynced(true), after a block has been accepted, and the calls of
\* other threads.
BlockAccepted ==
    /\ IF IsSynced THEN \E synced \in BOOLEAN : IsBlockchainSynced(synced)
       ELSE fBlockchainSynced' = FALSE
    /\ UNCHANGED <<syncVars, askVars, asked, tick, zeroing, vNodes, noirnodes>>

FoundSynced ==
    /\ IsBlockchainSynced(TRUE)
    /\ UNCHANGED <<syncVars, askVars, asked, tick, zeroing, vNodes, noirnodes>>

\* Reset by another thread sets the stage, and the count later.
Reset ==
    /\ ~zeroing /\ zeroing' = TRUE
    /\ nRequestedNoirnodeAssets' = "initial" /\ quiet' = 0
    /\ UNCHANGED <<nRequestedNoirnodeAttempt, askVars, asked, tick, vNodes, noirnodes>>

\* noirsync reset.
RpcReset == Reset /\ UNCHANGED fBlockchainSynced

\* A node that wakes up more than an hour after the last call of
\* IsBlockchainSynced.
WakeUp == Reset /\ fBlockchainSynced' \in BOOLEAN

\* noirsync next.  A failed sync cannot be moved on: SwitchToNextAsset throws.
RpcNext ==
    /\ nRequestedNoirnodeAssets # "failed" /\ ~zeroing /\ zeroing' = TRUE
    /\ IF IsSynced THEN UNCHANGED <<nRequestedNoirnodeAssets, quiet>>
       ELSE nRequestedNoirnodeAssets' = NextAsset[nRequestedNoirnodeAssets] /\ quiet' = 0
    /\ LookAtMarks /\ asked' = {"list", "mnw"}
    /\ UNCHANGED <<nRequestedNoirnodeAttempt, mWeAskedForNoirnodeList, owed, tick, world>>

ZeroAttempt ==
    /\ zeroing /\ zeroing' = FALSE /\ nRequestedNoirnodeAttempt' = 0
    /\ UNCHANGED <<nRequestedNoirnodeAssets, quiet, askVars, asked, tick, world>>

\* AddedNoirnodeList and AddedPaymentVote set the timestamp of their stage.
Added(stage) == quiet' = IF nRequestedNoirnodeAssets = stage THEN 0 ELSE quiet

\* A noirnode is announced: by a peer asked for its list, or by any other.
\* CNoirnodeMan ignores announcements until the chain is synced.
Announced ==
    /\ IF fBlockchainSynced THEN noirnodes' = TRUE /\ Added("list")
       ELSE UNCHANGED <<noirnodes, quiet>>
    /\ UNCHANGED <<nRequestedNoirnodeAssets, nRequestedNoirnodeAttempt, mapFulfilledRequests,
                   mWeAskedForNoirnodeList, asked, tick, zeroing, fBlockchainSynced, vNodes>>

AnswerList(p) == p \in owed /\ owed' = owed \ {p} /\ Announced
Announce == UNCHANGED owed /\ Announced

\* A peer that is not synced itself ignores the request.
IgnoreRequest(p) ==
    /\ p \in owed /\ owed' = owed \ {p}
    /\ UNCHANGED <<syncVars, mapFulfilledRequests, mWeAskedForNoirnodeList, asked, tick,
                   zeroing, world>>

NewVote ==
    /\ nRequestedNoirnodeAssets \in {"mnw", "finished"} /\ Added("mnw")
    /\ UNCHANGED <<nRequestedNoirnodeAssets, nRequestedNoirnodeAttempt, askVars, asked, tick,
                   zeroing, world>>

\* CNoirnodeMan::CheckAndRemove removes the last noirnode.  The thread calls it
\* between two ticks, and it does nothing until the list is synced.
LoseNoirnodes ==
    /\ tick.at = "idle" /\ nRequestedNoirnodeAssets \in {"mnw", "finished"}
    /\ noirnodes /\ noirnodes' = FALSE
    /\ UNCHANGED <<syncVars, askVars, asked, tick, zeroing, fBlockchainSynced, vNodes>>

\* ConnectNode and AcceptConnection; ThreadSocketHandler removes a peer.
Connect(p) ==
    /\ \A q \in vNodes : Addr[q] # Addr[p]
    /\ vNodes' = vNodes \cup {p}
    /\ UNCHANGED <<syncVars, askVars, asked, tick, zeroing, fBlockchainSynced, noirnodes>>

Disconnect(p) ==
    /\ p \in vNodes /\ vNodes' = vNodes \ {p} /\ owed' = owed \ {p}
    /\ UNCHANGED <<syncVars, mapFulfilledRequests, mWeAskedForNoirnodeList, asked, tick,
                   zeroing, fBlockchainSynced, noirnodes>>

\* An hour after a request, and three hours after one for the list.
ForgetRequest(r) ==
    /\ r \in mapFulfilledRequests /\ mapFulfilledRequests' = mapFulfilledRequests \ {r}
    /\ UNCHANGED <<syncVars, mWeAskedForNoirnodeList, owed, asked, tick, zeroing, world>>

AskAgain(a) ==
    /\ a \in mWeAskedForNoirnodeList /\ mWeAskedForNoirnodeList' = mWeAskedForNoirnodeList \ {a}
    /\ UNCHANGED <<syncVars, mapFulfilledRequests, owed, asked, tick, zeroing, world>>

Others ==
    \/ BlockAccepted \/ FoundSynced \/ RpcReset \/ RpcNext \/ ZeroAttempt \/ WakeUp
    \/ Announce \/ NewVote \/ LoseNoirnodes
    \/ \E p \in Peers : \/ AnswerList(p) \/ IgnoreRequest(p) \/ Connect(p) \/ Disconnect(p)
    \/ \E a \in Addrs : AskAgain(a)
    \/ \E r \in Addrs \X Requests : ForgetRequest(r)

Next == ProcessTick \/ Others

\* The thread keeps calling ProcessTick, and a request for the list is not
\* remembered for ever.
Fairness ==
    /\ WF_vars(ProcessTick)
    /\ \A a \in Addrs : WF_vars(AskAgain(a))

Spec == Init /\ [][Next]_vars /\ Fairness

-----------------------------------------------------------------------------
(* Properties.                                                             *)

Ticks ==
    [at : {"idle", "some", "empty", "chain", "switch", "sporks", "read", "write", "copy",
           "peers", "look", "timeout", "ask", "count", "store"},
     seen : Stages \cup {"none"}, back : {"idle", "chain", "copy"}, loaded : 0..MaxAttempt,
     peer : Peers \cup {NoPeer}, left : SUBSET Peers]

\* The state has the shape the code keeps: only addresses of updated peers were
\* asked for the list, only connected peers still owe it, and ProcessTick is in
\* its loop as long as there are peers it has not looked at.
TypeOK ==
    /\ nRequestedNoirnodeAssets \in Stages /\ nRequestedNoirnodeAttempt \in 0..MaxAttempt
    /\ quiet \in 0..(Timeout + 1) /\ fBlockchainSynced \in BOOLEAN /\ noirnodes \in BOOLEAN
    /\ mapFulfilledRequests \subseteq Addrs \X Requests
    /\ mWeAskedForNoirnodeList \subseteq {Addr[p] : p \in Updated}
    /\ vNodes \subseteq Peers /\ owed \subseteq vNodes
    /\ tick \in Ticks /\ (tick.at = "peers" => tick.left # {})
    /\ zeroing \in BOOLEAN /\ asked \subseteq {"list", "mnw"}

\* A stage is passed only after a peer was asked for its asset in this sync (or
\* for the list, less than three hours ago), whatever resets, time-outs and lost
\* peers come between the steps of ProcessTick, unless the user moves the sync on
\* with noirsync next: votes are fetched after the list was asked for, a sync that
\* has finished has asked for both, and the count by which a stage that times out
\* is passed, not failed, counts requests of that stage.
OnlyUserSkips ==
    /\ nRequestedNoirnodeAssets = "mnw" => "list" \in asked
    /\ nRequestedNoirnodeAssets = "finished" => asked = {"list", "mnw"}
    /\ nRequestedNoirnodeAssets \in {"list", "mnw"} /\ nRequestedNoirnodeAttempt > 0 =>
          nRequestedNoirnodeAssets \in asked

\* Whatever the peers and the other threads do, a failed sync, and one that has
\* finished and then lost all noirnodes, does not stay so: ProcessTick starts it
\* again, unless the noirnodes come back by themselves.
AlwaysRetried ==
    /\ []<>(nRequestedNoirnodeAssets # "failed")
    /\ []<>(~IsSynced \/ noirnodes)

\* What a node needs in the long run: nobody else moves the sync; no peer and no
\* noirnode is lost; until the sync has finished no announcement or vote arrives
\* but the answers, and no request is forgotten; as long as there
\* are no noirnodes the requests for the list are answered; and the lock is free
\* when ClearFulfilledRequests tries it.
Calm ==
    \/ ProcessTick /\ (tick.at = "read" /\ nRequestedNoirnodeAssets = "initial" =>
                         \A r \in mapFulfilledRequests', p \in vNodes : r[1] # Addr[p])
    \/ BlockAccepted \/ FoundSynced \/ ZeroAttempt
    \/ IsSynced /\ (Announce \/ NewVote \/ \E r \in Addrs \X Requests : ForgetRequest(r))
    \/ \E p \in Peers : AnswerList(p) \/ Connect(p) \/ (noirnodes /\ IgnoreRequest(p))
    \/ \E a \in Addrs : AskAgain(a)
Settles ==
    /\ <>[][Calm]_vars
    /\ <>[](fBlockchainSynced /\ vNodes \cap Updated # {})
    /\ \A p \in Updated : WF_vars(AnswerList(p))

\* A sync that fails, is reset or finishes without noirnodes is tried again until
\* it is finished and the node has noirnodes, also while a peer may not be asked
\* again: no wait of ProcessTick is for something that does not come.
SyncFinishes == Settles => <>[](IsSynced /\ noirnodes)
=============================================================================

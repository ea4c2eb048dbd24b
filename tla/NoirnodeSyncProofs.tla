------------------------- MODULE NoirnodeSyncProofs -------------------------
(***************************************************************************)
(* Every set of peers, every timeout and every bound on the count of       *)
(* requests: ProcessTick passes a stage only after a peer was asked for    *)
(* its asset, although other threads move the stage between its steps.     *)
(***************************************************************************)
EXTENDS NoirnodeSync, TLAPS

A == nRequestedNoirnodeAssets
T == nRequestedNoirnodeAttempt

\* What ProcessTick has read and not yet used is covered by what was asked for:
\* where it is about to leave a stage that stage's asset was asked for, or the user
\* has moved the sync on; the stage it is to write may be entered; and where it is
\* about to count a request the stage is the one it has read, or one that needs none.
TickInv ==
    /\ tick.at \in {"sporks", "read"} /\ A \in {"list", "mnw"} => A \in asked
    /\ tick.at \in {"ask", "count", "store"} =>
          /\ tick.seen \in {"list", "mnw"}
          /\ A \in {"list", "mnw"} => A \in asked \cup {tick.seen}
    /\ tick.at = "write" =>
          /\ tick.seen # "failed"
          /\ tick.seen = "mnw" => "list" \in asked
          /\ tick.seen = "finished" => asked = {"list", "mnw"}
    /\ A = "failed" => \/ tick.at \in {"idle", "some", "empty"}
                       \/ tick.at = "write" /\ tick.seen = "initial"

SyncInv ==
    /\ A \in Stages /\ T \in 0..MaxAttempt /\ asked \subseteq {"list", "mnw"} /\ tick \in Ticks
    /\ vNodes \subseteq Peers /\ TickInv /\ OnlyUserSkips

\* What another thread may do: leave the stage, start again, or move it on, which
\* excuses all; never count.
OtherStep ==
    /\ tick' = tick
    /\ \/ A' = A /\ asked' = asked
       \/ A' = "initial" /\ asked' = asked
       \/ A' \in Stages \ {"failed"} /\ A # "failed" /\ asked' = {"list", "mnw"}
    /\ T' \in {0, T} /\ vNodes' \subseteq Peers

LEMMA SyncOtherStep ==
  ASSUME SyncInv, OtherStep
  PROVE  SyncInv'
<1>1. A' \in Stages /\ asked' \subseteq {"list", "mnw"} /\ tick' \in Ticks
  BY DEF SyncInv, OtherStep, A, Stages
<1>4. T' \in 0..MaxAttempt
  BY PeersAssumption DEF SyncInv, OtherStep, PeersAssumption, T
<1>2. TickInv'
  BY DEF SyncInv, OtherStep, TickInv, OnlyUserSkips, A, T
<1>3. OnlyUserSkips'
  BY PeersAssumption DEF SyncInv, OtherStep, OnlyUserSkips, PeersAssumption, A, T
<1> QED BY <1>1, <1>2, <1>3, <1>4 DEF SyncInv, OtherStep, A, T

\* A step of ProcessTick that only moves it, with the stage it has read.
LEMMA SyncMove ==
  ASSUME SyncInv, A' = A, T' = T, asked' = asked, vNodes' = vNodes, tick' \in Ticks,
         tick'.at \notin {"write", "sporks", "read", "ask", "count", "store"},
         A = "failed" => tick'.at \in {"idle", "some", "empty"}
  PROVE  SyncInv'
BY DEF SyncInv, TickInv, OnlyUserSkips, A, T

LEMMA TickRecords ==
  ASSUME NEW S \in SUBSET Peers, NEW place \in {"idle", "some", "empty", "chain", "switch",
             "sporks", "read", "write", "copy", "peers", "look", "timeout", "ask", "count",
             "store"},
         NEW back \in {"idle", "chain", "copy"}, NEW stage \in Stages \cup {"none"}
  PROVE  /\ At(place) \in Ticks /\ At(place).at = place
         /\ Loop(S) \in Ticks /\ Loop(S).at \in {"idle", "peers"}
         /\ Switch(back) \in Ticks /\ Switch(back).at = "read"
         /\ Write(stage, back) \in Ticks /\ Write(stage, back).at = "write"
         /\ Write(stage, back).seen = stage
<1>1. Idle \in Ticks /\ Idle.at = "idle"
  BY PeersAssumption DEF Idle, Ticks, PeersAssumption
<1>2. At(place) \in Ticks /\ At(place).at = place
  BY <1>1 DEF At, Ticks
<1>3. Loop(S) \in Ticks /\ Loop(S).at \in {"idle", "peers"}
  BY <1>1 DEF Loop, Ticks
<1>4. Switch(back) \in Ticks /\ Switch(back).at = "read"
  BY <1>1 DEF Switch, Ticks
<1>5. /\ Write(stage, back) \in Ticks /\ Write(stage, back).at = "write"
      /\ Write(stage, back).seen = stage
  BY <1>1 DEF Write, Ticks
<1> QED BY <1>2, <1>3, <1>4, <1>5

\* The steps that look at the stage: they go to where TickInv asks for nothing, or
\* for what OnlyUserSkips says of the stage they have found.
LEMMA SyncRead ==
  ASSUME SyncInv,
         \/ CountNoirnodes \/ BeginTick \/ CheckChain \/ SwitchStage \/ LeaveSporks
         \/ CopyNodeVector
  PROVE  SyncInv'
<1>1. CASE CountNoirnodes
  <2>1. /\ tick' \in Ticks /\ tick'.at \in {"some", "empty"}
        /\ A' = A /\ T' = T /\ asked' = asked /\ vNodes' = vNodes
    BY <1>1, TickRecords DEF CountNoirnodes, world, A, T
  <2> QED BY <2>1, SyncMove
<1>2. CASE BeginTick
  <2>0. A' = A /\ T' = T /\ asked' = asked /\ vNodes' = vNodes
    BY <1>2 DEF BeginTick, world, syncVars, A, T
  <2>1. CASE tick' = Idle
    <3>1. Idle \in Ticks /\ Idle.at = "idle"
      BY PeersAssumption DEF Idle, Ticks, PeersAssumption
    <3> QED BY <2>0, <2>1, <3>1, SyncMove
  <2>2. CASE tick' = At("chain") /\ A # "failed"
    <3>1. tick' \in Ticks /\ tick'.at = "chain"
      BY <2>2, TickRecords
    <3> QED BY <2>0, <2>2, <3>1, SyncMove
  <2>3. CASE tick' = Write("initial", IF IsSynced THEN "chain" ELSE "idle")
    <3>1. tick' \in Ticks /\ tick'.at = "write" /\ tick'.seen = "initial"
      BY <2>3, TickRecords DEF Stages
    <3> QED BY <2>0, <3>1 DEF SyncInv, TickInv, OnlyUserSkips, A, T
  <2> QED BY <1>2, <2>1, <2>2, <2>3 DEF BeginTick, A
<1>3. CASE CheckChain
  <2>0. A' = A /\ T' = T /\ asked' = asked /\ vNodes' = vNodes /\ A # "failed"
    BY <1>3 DEF CheckChain, SyncInv, TickInv, A, T
  <2>1. CASE tick' = Idle
    <3>1. Idle \in Ticks /\ Idle.at = "idle"
      BY PeersAssumption DEF Idle, Ticks, PeersAssumption
    <3> QED BY <2>0, <2>1, <3>1, SyncMove
  <2>2. CASE tick' = At("switch")
    <3>1. tick' \in Ticks /\ tick'.at = "switch"
      BY <2>2, TickRecords
    <3> QED BY <2>0, <3>1, SyncMove
  <2> QED BY <1>3, <2>1, <2>2 DEF CheckChain
<1>4. CASE SwitchStage
  <2>0. A' = A /\ T' = T /\ asked' = asked /\ vNodes' = vNodes /\ A # "failed"
    BY <1>4 DEF SwitchStage, world, SyncInv, TickInv, syncVars, A, T
  <2>1. CASE A = "initial"
    <3>1. tick' = Switch("copy")
      BY <1>4, <2>1 DEF SwitchStage, A
    <3>2. tick' \in Ticks /\ tick'.at = "read"
      BY <3>1, TickRecords
    <3> QED BY <2>0, <2>1, <3>2 DEF SyncInv, TickInv, OnlyUserSkips, A, T
  <2>2. CASE A = "sporks"
    <3>1. tick' = At("sporks")
      BY <1>4, <2>2 DEF SwitchStage, A
    <3>2. tick' \in Ticks /\ tick'.at = "sporks"
      BY <3>1, TickRecords
    <3> QED BY <2>0, <2>2, <3>2 DEF SyncInv, TickInv, OnlyUserSkips, A, T
  <2>3. CASE A \notin {"initial", "sporks"}
    <3>1. tick' = At("copy")
      BY <1>4, <2>3 DEF SwitchStage, A
    <3>2. tick' \in Ticks /\ tick'.at = "copy"
      BY <3>1, TickRecords
    <3> QED BY <2>0, <3>2, SyncMove
  <2> QED BY <2>1, <2>2, <2>3
<1>5. CASE LeaveSporks
  <2>0. /\ A' = A /\ T' = T /\ asked' = asked /\ vNodes' = vNodes /\ A # "failed"
        /\ A \in {"list", "mnw"} => A \in asked
    BY <1>5 DEF LeaveSporks, SyncInv, TickInv, syncVars, A, T
  <2>1. CASE tick' = Switch("copy")
    <3>1. tick' \in Ticks /\ tick'.at = "read"
      BY <2>1, TickRecords
    <3> QED BY <2>0, <3>1 DEF SyncInv, TickInv, OnlyUserSkips, A, T
  <2>2. CASE tick' = At("copy")
    <3>1. tick' \in Ticks /\ tick'.at = "copy"
      BY <2>2, TickRecords
    <3> QED BY <2>0, <3>1, SyncMove
  <2> QED BY <1>5, <2>1, <2>2 DEF LeaveSporks
<1>6. CASE CopyNodeVector
  <2>1. /\ A' = A /\ T' = T /\ asked' = asked /\ vNodes' = vNodes /\ A # "failed"
        /\ tick' = Loop(vNodes) /\ vNodes \in SUBSET Peers
    BY <1>6 DEF CopyNodeVector, SyncInv, TickInv, world, syncVars, A, T
  <2>2. tick' \in Ticks /\ tick'.at \in {"idle", "peers"}
    BY <2>1, TickRecords
  <2> QED BY <2>1, <2>2, SyncMove
<1> QED BY <1>1, <1>2, <1>3, <1>4, <1>5, <1>6

\* SwitchToNextAsset, in two steps: the stage that is left was asked for, and
\* still is when the next one is written.
LEMMA SyncSwitch ==
  ASSUME SyncInv, ReadStage \/ WriteStage
  PROVE  SyncInv'
<1>1. CASE ReadStage
  <2>0. /\ A' = A /\ T' = T /\ asked' = asked /\ vNodes' = vNodes
        /\ A \in {"initial", "sporks", "list", "mnw", "finished"}
        /\ A \in {"list", "mnw"} => A \in asked
        /\ tick.back \in {"idle", "chain", "copy"}
    BY <1>1 DEF ReadStage, SyncInv, TickInv, Ticks, Stages, world, syncVars, A, T
  <2>1. NextAsset[A] \in {"sporks", "list", "mnw", "finished", "none"}
    BY <2>0 DEF NextAsset
  <2>2. /\ NextAsset[A] = "mnw" => A = "list"
        /\ NextAsset[A] = "finished" => A = "mnw"
    BY <2>0 DEF NextAsset
  <2>3. tick' \in Ticks /\ tick'.at = "write" /\ tick'.seen = NextAsset[A]
    BY <1>1, <2>0, <2>1, TickRecords DEF ReadStage, Stages, A
  <2>4. /\ tick'.seen = "mnw" => "list" \in asked
        /\ tick'.seen = "finished" => asked = {"list", "mnw"}
    BY <2>0, <2>2, <2>3 DEF SyncInv, OnlyUserSkips, A
  <2>5. A # "failed" /\ tick'.seen # "failed"
    BY <2>0, <2>1, <2>3
  <2> QED BY <2>0, <2>3, <2>4, <2>5 DEF SyncInv, TickInv, OnlyUserSkips, A, T
<1>2. CASE WriteStage
  <2>1. T' = 0 /\ vNodes' = vNodes /\ 0 \in 0..MaxAttempt
    BY <1>2, PeersAssumption DEF WriteStage, AttemptAfterSwitch, world, PeersAssumption, T
  <2>2. tick' \in Ticks /\ tick'.at \in {"idle", "chain", "copy"}
    <3>1. tick.back \in {"idle", "chain", "copy"} /\ tick' = At(tick.back)
      BY <1>2 DEF WriteStage, SyncInv, Ticks
    <3>2. At(tick.back) \in Ticks /\ At(tick.back).at = tick.back
      BY <3>1, TickRecords
    <3> QED BY <3>1, <3>2
  <2>3. CASE tick.seen = "none"
    <3>1. A' = A /\ asked' = asked /\ A # "failed"
      BY <1>2, <2>3 DEF WriteStage, SyncInv, TickInv, A
    <3> QED BY <2>1, <2>2, <3>1 DEF SyncInv, TickInv, OnlyUserSkips, A, T
  <2>4. CASE tick.seen # "none"
    <3>1. /\ A' = tick.seen /\ A' \in Stages \ {"failed"}
          /\ asked' = IF tick.seen = "sporks" THEN {} ELSE asked
      BY <1>2, <2>4 DEF WriteStage, SyncInv, TickInv, Ticks, Stages, A
    <3>2. /\ A' = "mnw" => "list" \in asked'
          /\ A' = "finished" => asked' = {"list", "mnw"}
      BY <1>2, <3>1 DEF WriteStage, SyncInv, TickInv
    <3>3. OnlyUserSkips'
      BY <2>1, <3>2 DEF OnlyUserSkips, A, T
    <3> QED BY <2>1, <2>2, <3>1, <3>3 DEF SyncInv, TickInv, A, T
  <2> QED BY <2>3, <2>4
<1> QED BY <1>1, <1>2

\* The loop over the peers, up to the request.
LEMMA SyncPeers ==
  ASSUME SyncInv,
         (\E p \in Peers : LookAtPeer(p)) \/ LookAtStage \/ TimeOut \/ EnoughData \/ Ask
  PROVE  SyncInv'
<1>1. CASE \E p \in Peers : LookAtPeer(p)
  <2>1. PICK p \in Peers : LookAtPeer(p)
    BY <1>1
  <2>2. /\ A' = A /\ T' = T /\ asked' = asked /\ vNodes' = vNodes /\ A # "failed"
        /\ tick.left \ {p} \in SUBSET Peers
    BY <2>1 DEF LookAtPeer, SyncInv, TickInv, Ticks, world, syncVars, A, T
  <2>3. tick' \in Ticks /\ tick'.at \in {"idle", "peers", "look"}
    <3>1. CASE tick' = Loop(tick.left \ {p})
      BY <2>2, <3>1, TickRecords
    <3>2. CASE tick' = [tick EXCEPT !.at = "look", !.peer = p, !.left = @ \ {p}]
      BY <2>2, <3>2 DEF SyncInv, Ticks
    <3> QED BY <2>1, <3>1, <3>2 DEF LookAtPeer
  <2> QED BY <2>2, <2>3, SyncMove
<1>2. CASE LookAtStage
  <2>1. /\ A' = A /\ T' = T /\ asked' = asked /\ vNodes' = vNodes /\ A # "failed"
        /\ tick.left \in SUBSET Peers
    BY <1>2 DEF LookAtStage, SyncInv, TickInv, Ticks, world, syncVars, A, T
  <2>2. CASE tick' = Loop(tick.left) \/ tick' = At("timeout")
    <3>1. tick' \in Ticks /\ tick'.at \in {"idle", "peers", "timeout"}
      BY <2>1, <2>2, TickRecords
    <3> QED BY <2>1, <3>1, SyncMove
  <2>3. CASE A \in {"list", "mnw"} /\ tick' = [tick EXCEPT !.at = "ask", !.seen = A]
    <3>1. tick' \in Ticks /\ tick'.at = "ask" /\ tick'.seen = A
      BY <2>3 DEF SyncInv, Ticks
    <3> QED BY <2>1, <2>3, <3>1 DEF SyncInv, TickInv, OnlyUserSkips, A, T
  <2> QED BY <1>2, <2>2, <2>3 DEF LookAtStage, A
<1>3. CASE TimeOut
  <2>1. T' = T /\ asked' = asked /\ vNodes' = vNodes /\ A # "failed"
    BY <1>3 DEF TimeOut, SyncInv, TickInv, world, A, T
  <2>2. CASE T = 0
    <3>1. A' = "failed" /\ tick' = Idle
      BY <1>3, <2>2 DEF TimeOut, A, T
    <3>2. Idle \in Ticks /\ Idle.at = "idle"
      BY PeersAssumption DEF Idle, Ticks, PeersAssumption
    <3> QED BY <2>1, <3>1, <3>2 DEF SyncInv, TickInv, OnlyUserSkips, Stages, A, T
  <2>3. CASE T # 0
    <3>1. A' = A /\ tick' = Switch("idle")
      BY <1>3, <2>3 DEF TimeOut, A, T
    <3>2. Switch("idle") \in Ticks /\ Switch("idle").at = "read"
      BY TickRecords
    <3>3. A \in {"list", "mnw"} => A \in asked
      BY <2>3, PeersAssumption DEF SyncInv, OnlyUserSkips, PeersAssumption, A, T
    <3> QED BY <2>1, <3>1, <3>2, <3>3 DEF SyncInv, TickInv, OnlyUserSkips, A, T
  <2> QED BY <2>2, <2>3
<1>4. CASE EnoughData
  <2>1. /\ A' = A /\ T' = T /\ asked' = asked /\ vNodes' = vNodes /\ A # "failed"
        /\ T > 1 /\ tick' = Switch("idle")
    BY <1>4 DEF EnoughData, SyncInv, TickInv, world, syncVars, A, T
  <2>2. tick' \in Ticks /\ tick'.at = "read"
    BY <2>1, TickRecords
  <2>3. A \in {"list", "mnw"} => A \in asked
    BY <2>1, PeersAssumption DEF SyncInv, OnlyUserSkips, PeersAssumption, A, T
  <2> QED BY <2>1, <2>2, <2>3 DEF SyncInv, TickInv, OnlyUserSkips, A, T
<1>5. CASE Ask
  <2>1. /\ A' = A /\ T' = T /\ asked' = asked /\ vNodes' = vNodes /\ A # "failed"
        /\ tick.at = "ask" /\ tick.left \in SUBSET Peers
    BY <1>5 DEF Ask, SyncInv, TickInv, Ticks, world, syncVars, A, T
  <2>2. CASE tick' = Loop(tick.left)
    <3>1. tick' \in Ticks /\ tick'.at \in {"idle", "peers"}
      BY <2>1, <2>2, TickRecords
    <3> QED BY <2>1, <3>1, SyncMove
  <2>3. CASE tick' = [tick EXCEPT !.at = "count", !.left = {}]
    <3>1. tick' \in Ticks /\ tick'.at = "count" /\ tick'.seen = tick.seen
      BY <2>3 DEF SyncInv, Ticks
    <3> QED BY <2>1, <3>1 DEF SyncInv, TickInv, OnlyUserSkips, A, T
  <2> QED BY <1>5, <2>2, <2>3 DEF Ask
<1> QED BY <1>1, <1>2, <1>3, <1>4, <1>5

\* The request: it is counted only after the stage it is for was read, and the
\* stage has not changed since, or needs no request any more.
LEMMA SyncCount ==
  ASSUME SyncInv, LoadAttempt \/ CountAndSend
  PROVE  SyncInv'
<1>1. CASE LoadAttempt
  <2>1. /\ A' = A /\ T' = T /\ asked' = asked /\ vNodes' = vNodes /\ A # "failed"
        /\ tick.at = "count" /\ tick' = [tick EXCEPT !.at = "store", !.loaded = T]
    BY <1>1 DEF LoadAttempt, SyncInv, TickInv, world, syncVars, A, T
  <2>2. tick' \in Ticks /\ tick'.at = "store" /\ tick'.seen = tick.seen
    BY <2>1 DEF SyncInv, Ticks
  <2> QED BY <2>1, <2>2 DEF SyncInv, TickInv, OnlyUserSkips, A, T
<1>2. CASE CountAndSend
  <2>1. /\ A' = A /\ asked' = asked \cup {tick.seen} /\ vNodes' = vNodes /\ tick' = Idle
        /\ tick.seen \in {"list", "mnw"}
        /\ A \in {"list", "mnw"} => A \in asked'
    BY <1>2 DEF CountAndSend, SyncInv, TickInv, world, A
  <2>2. T' \in 0..MaxAttempt
    BY <1>2, PeersAssumption DEF CountAndSend, SyncInv, Ticks, PeersAssumption, T
  <2>3. Idle \in Ticks /\ Idle.at = "idle"
    BY PeersAssumption DEF Idle, Ticks, PeersAssumption
  <2>4. asked' \subseteq {"list", "mnw"}
    BY <2>1 DEF SyncInv
  <2>5. OnlyUserSkips'
    BY <2>1, <2>4 DEF SyncInv, OnlyUserSkips, A
  <2>6. TickInv'
    BY <2>1, <2>3 DEF TickInv, A
  <2> QED BY <2>1, <2>2, <2>3, <2>4, <2>5, <2>6 DEF SyncInv, A, T
<1> QED BY <1>1, <1>2

\* noirsync next.
LEMMA NextIsOtherStep ==
  ASSUME SyncInv, RpcNext
  PROVE  OtherStep
<1>1. A # "failed" /\ T' = T /\ tick' = tick /\ vNodes' = vNodes /\ asked' = {"list", "mnw"}
  BY DEF RpcNext, world, A, T
<1>2. A' \in Stages \ {"failed"}
  <2>1. CASE IsSynced
    BY <2>1 DEF RpcNext, IsSynced, Stages, A
  <2>2. CASE ~IsSynced
    <3>1. A \in {"initial", "sporks", "list", "mnw"}
      BY <1>1, <2>2 DEF SyncInv, IsSynced, Stages, A
    <3>2. NextAsset[A] \in {"sporks", "list", "mnw", "finished"}
      BY <3>1 DEF NextAsset
    <3>3. A' = NextAsset[A]
      BY <2>2 DEF RpcNext, A
    <3> QED BY <3>2, <3>3 DEF Stages
  <2> QED BY <2>1, <2>2
<1> QED BY <1>1, <1>2 DEF OtherStep, SyncInv

LEMMA OthersAreOtherSteps ==
  ASSUME SyncInv, Others
  PROVE  OtherStep
<1>1. CASE RpcReset \/ WakeUp
  BY <1>1 DEF RpcReset, WakeUp, Reset, OtherStep, SyncInv, A, T
<1>2. CASE ZeroAttempt
  BY <1>2 DEF ZeroAttempt, OtherStep, SyncInv, world, A, T
<1>3. CASE BlockAccepted \/ FoundSynced \/ LoseNoirnodes
  BY <1>3 DEF BlockAccepted, FoundSynced, LoseNoirnodes, syncVars, OtherStep, SyncInv, A, T
<1>4. CASE Announce \/ NewVote \/ \E p \in Peers : AnswerList(p)
  BY <1>4 DEF Announce, NewVote, AnswerList, Announced, OtherStep, SyncInv, world, A, T
<1>5. CASE \E p \in Peers : IgnoreRequest(p) \/ Connect(p) \/ Disconnect(p)
  BY <1>5 DEF IgnoreRequest, Connect, Disconnect, syncVars, OtherStep, SyncInv, world, A, T
<1>6. CASE \/ \E a \in Addrs : AskAgain(a)
           \/ \E r \in Addrs \X Requests : ForgetRequest(r)
  BY <1>6 DEF AskAgain, ForgetRequest, syncVars, OtherStep, SyncInv, world, A, T
<1> QED BY <1>1, <1>2, <1>3, <1>4, <1>5, <1>6, NextIsOtherStep DEF Others

\* OnlyUserSkips holds in every behaviour, for all peers, addresses, timeouts and
\* bounds.  ProcessTick takes no lock: between its test of the stage, its test of
\* the count, its count and its SwitchToNextAsset another thread may reset the
\* sync.  It may then write a stage that the reset did not mean, but never one for
\* which the data before it was not asked for; only noirsync next does that.
THEOREM OnlyUserSkipsStages == Spec => []OnlyUserSkips
<1>1. Init => SyncInv
  <2> SUFFICES ASSUME Init PROVE SyncInv
    OBVIOUS
  <2>1. Idle \in Ticks /\ Idle.at = "idle"
    BY PeersAssumption DEF Idle, Ticks, PeersAssumption
  <2> QED
    BY <2>1, PeersAssumption
    DEF Init, SyncInv, TickInv, OnlyUserSkips, Stages, PeersAssumption, A, T
<1>2. SyncInv /\ [Next]_vars => SyncInv'
  <2> SUFFICES ASSUME SyncInv, [Next]_vars PROVE SyncInv'
    OBVIOUS
  <2>1. CASE UNCHANGED vars
    BY <2>1, SyncOtherStep DEF vars, syncVars, world, OtherStep, SyncInv, A, T
  <2>2. CASE ProcessTick
    BY <2>2, SyncRead, SyncSwitch, SyncPeers, SyncCount DEF ProcessTick
  <2>3. CASE Others
    BY <2>3, OthersAreOtherSteps, SyncOtherStep
  <2> QED BY <2>1, <2>2, <2>3 DEF Next
<1>3. SyncInv => OnlyUserSkips
  BY DEF SyncInv
<1> QED BY <1>1, <1>2, <1>3, PTL DEF Spec
=============================================================================

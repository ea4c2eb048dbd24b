-------------------------- MODULE BlockCoinsProofs --------------------------
(***************************************************************************)
(* The flags of the caches are sound, for every block tree and every       *)
(* content of the blocks.  ModifyNewCoins takes an entry to be fresh       *)
(* without looking into the base: what makes that right is the check of    *)
(* BIP30 at the beginning of ConnectBlock, and that pcoinsTip shows the    *)
(* same coins until the view is flushed or dropped.                        *)
(***************************************************************************)
EXTENDS BlockValidationProofs, CoinsCacheProofs

\* Both layers are sound, no view is left over, and in the loop of ConnectBlock
\* pcoinsTip shows none of the block's transactions.
CoinsInv ==
    /\ Layers(coins) /\ TipSound(coins)
    /\ job.kind # "verify" => ViewSound(coins)
    /\ job.kind = "none" => coins.view = EmptyCache
    /\ job.at = "txs" /\ job.kind # "verify" =>
          \A k \in 1..Len(Txs(job.block)) : Pruned(TipCoins(coins, Txs(job.block)[k]))

LEMMA CoinsInit == Init => CoinsInv
<1> SUFFICES ASSUME Init PROVE CoinsInv
  OBVIOUS
<1>1. coins = Reopened(coins) /\ job.kind = "none" /\ job.at = "idle"
  BY DEF Init, Reopened, Idle
<1>2. LET d == Reopened(coins) IN Layers(d) /\ TipSound(d) /\ ViewSound(d) /\ d.view = EmptyCache
  BY ReopenedSound
<1> QED BY <1>1, <1>2 DEF CoinsInv

\* What it takes to end a job.
LEMMA CoinsEnd ==
  ASSUME Layers(coins'), TipSound(coins'), ViewSound(coins'), coins'.view = EmptyCache,
         job'.at # "txs"
  PROVE  CoinsInv'
  BY DEF CoinsInv

\* A step in the view of the same job: pcoinsTip shows the same coins.
LEMMA CoinsOn ==
  ASSUME CoinsInv, JobInv, world' = world, Layers(coins'), TipSound(coins'), SameTip(coins, coins'),
         job.kind # "verify" => ViewSound(coins'), job.kind # "none",
         job'.kind = job.kind, job'.block = job.block, job'.at \in {job.at, "wait", "undo", "again"}
  PROVE  CoinsInv'
<1>1. ASSUME job'.at = "txs", job'.kind # "verify", NEW k \in 1..Len(Txs(job.block))
      PROVE  Pruned(TipCoins(coins', Txs(job.block)[k]))
  <2>0. job.block \in Blocks
    BY DEF JobInv
  <2>1. Txs(job.block)[k] \in Txids
    BY <2>0, TxsOf
  <2>2. Pruned(TipCoins(coins, Txs(job.block)[k]))
    BY <1>1 DEF CoinsInv
  <2> QED BY <2>1, <2>2 DEF SameTip
<1>2. Txs(job.block)' = Txs(job.block)
  BY DEF Txs
<1> QED BY <1>1, <1>2 DEF CoinsInv

\* The outputs of a block that passes BIP30 are not in pcoinsTip.
LEMMA CoinsEnter ==
  ASSUME CoinsInv, JobInv, NEW kind, NEW b \in Blocks, EnterConnectBlock(kind, b),
         kind = "verify" <=> job.kind = "verify", kind \in {"connect", "check", "verify"},
         kind # "verify" => job.kind = "none"
  PROVE  CoinsInv'
<1> DEFINE bad == Overwrites(coins, b)
           S == {Txs(b)[i] : i \in {k \in 1..Len(Txs(b)) : \A m \in bad : k <= m}}
<1>1. /\ coins' = FetchView(coins, S) /\ world' = world
      /\ job'.kind = kind /\ job'.block = b /\ (job'.at = "txs" => bad = {})
  BY DEF EnterConnectBlock
<1>2. Layers(coins)
  BY DEF CoinsInv
<1> HIDE DEF S
<1>3. /\ Layers(coins') /\ SameTip(coins, coins') /\ (TipSound(coins) => TipSound(coins'))
      /\ ViewSound(coins) => ViewSound(coins')
  BY <1>1, <1>2, FetchViewSound
<1>4. ASSUME job'.at = "txs", kind # "verify", NEW k \in 1..Len(Txs(b))
      PROVE  Pruned(TipCoins(coins', Txs(b)[k]))
  <2>1. Txs(b)[k] \in Txids
    BY TxsOf
  <2>2. Pruned(ViewCoins(coins, Txs(b)[k]))
    BY <1>1, <1>4 DEF Overwrites
  <2>3. coins.view[Txs(b)[k]] = Absent
    BY <1>4, <2>1, EmptyCached DEF CoinsInv
  <2>4. ViewCoins(coins, Txs(b)[k]) = TipCoins(coins, Txs(b)[k])
    BY <2>3 DEF ViewCoins, Absent
  <2> QED BY <1>3, <2>1, <2>2, <2>4 DEF SameTip
<1>5. Txs(b)' = Txs(b)
  BY <1>1 DEF Txs
<1> QED BY <1>1, <1>3, <1>4, <1>5 DEF CoinsInv

LEMMA CoinsTx == CoinsInv /\ JobInv /\ ConnectTx => CoinsInv' /\ SameTip(coins, coins')
<1> SUFFICES ASSUME CoinsInv, JobInv, ConnectTx PROVE CoinsInv' /\ SameTip(coins, coins')
  OBVIOUS
<1> DEFINE b == job.block
           t == Txs(b)[job.i]
           S == LookedAt(coins, t)
           c == FetchView(coins, S)
           spent == [p \in Prevs(t) |-> [ViewCoins(c, p) EXCEPT !.outs = @ \ SpentOf(t, p)]]
           e == ModifyCoins(c, Prevs(t), spent)
<1>1. /\ job.at = "txs" /\ job.i <= Len(Txs(b)) /\ world' = world /\ job.kind # "none"
      /\ t \in Txids /\ job.i \in 1..Len(Txs(b))
  BY TxsOf DEF ConnectTx, JobInv
<1>2. /\ job'.kind = job.kind /\ job'.block = job.block /\ job'.at \in {job.at, "wait", "undo", "again"}
      /\ coins' \in {coins, c, UpdateCoins(c, t, b)}
  <2>1. /\ coins' \in {coins, c, UpdateCoins(c, t, b)}
        /\ \/ \E f : job' = [job EXCEPT !.at = "wait", !.fail = f]
           \/ \E u : job' = [job EXCEPT !.i = @ + 1, !.undo = u]
    BY DEF ConnectTx, Leave
  <2>2. ASSUME NEW f, job' = [job EXCEPT !.at = "wait", !.fail = f]
        PROVE  job'.kind = job.kind /\ job'.block = job.block /\ job'.at = "wait"
    BY <2>2 DEF JobInv
  <2>3. ASSUME NEW u, job' = [job EXCEPT !.i = @ + 1, !.undo = u]
        PROVE  job'.kind = job.kind /\ job'.block = job.block /\ job'.at = job.at
    BY <2>3 DEF JobInv
  <2> QED BY <2>1, <2>2, <2>3
<1>3. Layers(coins) /\ TipSound(coins) /\ SameTip(coins, coins)
  BY DEF CoinsInv, SameTip
<1> HIDE DEF S
<1>4. Layers(c) /\ TipSound(c) /\ SameTip(coins, c) /\ (ViewSound(coins) => ViewSound(c))
  BY <1>3, FetchViewSound
<1> HIDE DEF c, spent
<1>5. Layers(e) /\ TipSound(e) /\ SameTip(c, e) /\ (ViewSound(c) => ViewSound(e))
  BY <1>4, ModifyCoinsSound
<1>6. UpdateCoins(c, t, b) = ModifyNewCoins(e, t, t \in Coinbase, FromTx(t, b))
  BY DEF UpdateCoins, spent
<1> HIDE DEF e
<1>7. LET d == UpdateCoins(c, t, b)
      IN  /\ Layers(d) /\ TipSound(d) /\ SameTip(e, d)
          /\ ViewSound(e) /\ Pruned(TipCoins(e, t)) => ViewSound(d)
  <2>1. (t \in Coinbase) \in BOOLEAN
    OBVIOUS
  <2> QED BY <1>1, <1>5, <1>6, <2>1, ModifyNewCoinsSound
<1>8. job.kind # "verify" => ViewSound(coins) /\ Pruned(TipCoins(coins, t))
  BY <1>1 DEF CoinsInv
<1>9. /\ Layers(coins') /\ TipSound(coins') /\ SameTip(coins, coins')
      /\ job.kind # "verify" => ViewSound(coins')
  <2>1. SameTip(coins, e) /\ SameTip(coins, UpdateCoins(c, t, b)) /\ TipCoins(e, t) = TipCoins(coins, t)
    <3> HIDE DEF t
    <3> QED BY <1>1, <1>4, <1>5, <1>7 DEF SameTip
  <2> HIDE DEF t
  <2> QED BY <1>2, <1>3, <1>4, <1>5, <1>7, <1>8, <2>1
<1> QED BY <1>1, <1>2, <1>9, CoinsOn

LEMMA CoinsUndo == CoinsInv /\ JobInv /\ UndoTx => CoinsInv' /\ SameTip(coins, coins')
<1> SUFFICES ASSUME CoinsInv, JobInv, UndoTx PROVE CoinsInv' /\ SameTip(coins, coins')
  OBVIOUS
<1>1. PICK T, new, R, back : coins' = ModifyCoins(ModifyCoins(coins, T, new), R, back)
  BY DEF UndoTx
<1> DEFINE c == ModifyCoins(coins, T, new)
<1>2. Layers(c) /\ SameTip(coins, c) /\ TipSound(c) /\ (ViewSound(coins) => ViewSound(c))
  BY ModifyCoinsSound DEF CoinsInv
<1> HIDE DEF c
<1>3. Layers(coins') /\ SameTip(c, coins') /\ TipSound(coins') /\ (ViewSound(c) => ViewSound(coins'))
  BY <1>1, <1>2, ModifyCoinsSound DEF c
<1>4. SameTip(coins, coins')
  BY <1>2, <1>3 DEF SameTip
<1>5. PICK f : job' = [job EXCEPT !.i = @ - 1, !.fail = f]
  BY DEF UndoTx
<1>6. /\ job'.kind = job.kind /\ job'.block = job.block /\ job'.at = job.at /\ job.at = "undo"
      /\ world' = world
  BY <1>5 DEF UndoTx, JobInv
<1> QED BY <1>2, <1>3, <1>4, <1>6, CoinsOn DEF CoinsInv, JobInv

\* What pcoinsTip shows may change in four ways: to what the view of a block
\* showed, when ConnectTip or DisconnectTip flushes it; not at all, when
\* pcoinsTip is flushed into the database, which then holds the same; to what
\* the database has, in a restart; and not at all in any other step, whatever
\* is looked up, uncached, modified in a view or dropped with it.
Shows(c, d) == \A t \in Txids : Same(TipCoins(d, t), TipCoins(c, t))
CoinsMove ==
    \/ coins'.db = coins.db /\ Shows(coins, coins')
    \/ /\ (job.kind = "connect" /\ Passed) \/ (job.kind = "disconnect" /\ ~job.fail)
       /\ coins'.db = coins.db
       /\ \A t \in Txids : Same(TipCoins(coins', t), ViewCoins(coins, t))
    \/ /\ dbBest' = tipBest /\ Shows(coins, coins')
       /\ \A t \in Txids : Same(coins'.db[t], TipCoins(coins, t))
    \/ /\ tipBest' = dbBest /\ coins'.db = coins.db
       /\ \A t \in Txids : TipCoins(coins', t) = coins.db[t]

LEMMA StillMove == SameTip(coins, coins') => CoinsMove
  BY DEF SameTip, CoinsMove, Shows, Same

LEMMA CoinsDropped ==
  CoinsInv /\ coins' = DropView(coins) /\ job'.at # "txs" => CoinsInv' /\ CoinsMove
<1> SUFFICES ASSUME CoinsInv, coins' = DropView(coins), job'.at # "txs" PROVE CoinsInv' /\ CoinsMove
  OBVIOUS
<1>1. /\ Layers(coins') /\ SameTip(coins, coins') /\ TipSound(coins') /\ ViewSound(coins')
      /\ coins'.view = EmptyCache
  BY DropViewSound DEF CoinsInv
<1> QED BY <1>1, CoinsEnd, StillMove

LEMMA CoinsFlushed ==
  ASSUME CoinsInv, coins' = FlushView(coins), job'.at # "txs",
         (job.kind = "connect" /\ Passed) \/ (job.kind = "disconnect" /\ ~job.fail)
  PROVE  CoinsInv' /\ CoinsMove
<1>1. /\ Layers(coins') /\ TipSound(coins') /\ ViewSound(coins')
      /\ coins'.db = coins.db /\ coins'.view = EmptyCache
      /\ \A t \in Txids : Same(TipCoins(coins', t), ViewCoins(coins, t))
  BY FlushViewSound DEF CoinsInv
<1> QED BY <1>1, CoinsEnd DEF CoinsMove

\* A step that leaves the layers alone, and no job in the loop.
LEMMA CoinsAlone ==
  ASSUME CoinsInv, coins' = coins, job'.at # "txs",
         job.kind = "none" \/ (job'.kind = job.kind /\ job.kind # "none")
  PROVE  CoinsInv' /\ CoinsMove
<1>1. job.kind = "none" => ViewSound(coins) /\ coins.view = EmptyCache
  BY DEF CoinsInv
<1>2. CoinsInv'
  BY <1>1 DEF CoinsInv
<1> QED BY <1>2, StillMove DEF SameTip

LEMMA CoinsStep == CoinsInv /\ JobInv /\ [Next]_vars => CoinsInv' /\ [CoinsMove]_vars
<1> SUFFICES ASSUME CoinsInv, JobInv, [Next]_vars PROVE CoinsInv' /\ [CoinsMove]_vars
  OBVIOUS
<1>0. ASSUME UNCHANGED <<world, coins, job>> PROVE CoinsInv' /\ CoinsMove
  <2>1. CoinsInv'
    BY <1>0 DEF CoinsInv, Txs
  <2> QED BY <1>0, <2>1, StillMove DEF SameTip
<1>1. CASE UNCHANGED vars \/ ThreadNext
  BY <1>0, <1>1 DEF vars, chainVars, ThreadNext
<1>2. ASSUME NEW t \in LookedUp, LookUp(t) PROVE CoinsInv' /\ CoinsMove
  <2>1. /\ coins' = FetchTip(coins, {t}) /\ job' = job /\ job.kind = "none" /\ job.at = "idle"
    BY <1>2 DEF LookUp, Idle
  <2>2. /\ Layers(coins') /\ coins'.view = EmptyCache /\ SameTip(coins, coins') /\ TipSound(coins')
    BY <2>1, FetchTipSound DEF CoinsInv
  <2> QED BY <2>1, <2>2, EmptySound, CoinsEnd, StillMove
<1>3. ASSUME NEW t \in LookedUp, UncacheCoins(t) PROVE CoinsInv' /\ CoinsMove
  <2>1. /\ coins' = Uncache(coins, t) /\ job' = job /\ job.kind = "none" /\ job.at = "idle" /\ t \in Txids
    BY <1>3, ChecksAssumption DEF UncacheCoins, Idle
  <2>2. /\ Layers(coins') /\ TipSound(coins') /\ ViewSound(coins') /\ coins'.db = coins.db
        /\ coins'.view = EmptyCache /\ Shows(coins, coins')
    BY <2>1, UncacheSound DEF CoinsInv, Shows
  <2> QED BY <2>1, <2>2, CoinsEnd DEF CoinsMove
<1>4. ASSUME NEW b \in Blocks, NEW kind \in {"connect", "check"}, BeginConnect(kind, b)
      PROVE  CoinsInv' /\ CoinsMove
  <2>1. job.kind = "none" /\ EnterConnectBlock(kind, b)
    BY <1>4 DEF BeginConnect, Idle
  <2>2. \E S : coins' = FetchView(coins, S)
    BY <2>1 DEF EnterConnectBlock
  <2>3. SameTip(coins, coins')
    BY <2>2, FetchViewSound DEF CoinsInv
  <2> QED BY <2>1, <2>3, CoinsEnter, StillMove
<1>5. CASE ConnectTx \/ UndoTx
  BY <1>5, CoinsTx, CoinsUndo, StillMove
<1>6. CASE CloseTxs
  <2>1. PICK f : job' = [job EXCEPT !.at = "wait", !.fail = f]
    BY <1>6 DEF CloseTxs, Leave
  <2>2. job'.kind = job.kind /\ job'.at = "wait" /\ coins' = coins /\ job.kind # "none"
    BY <1>6, <2>1 DEF CloseTxs, JobInv, chainVars
  <2> QED BY <2>2, CoinsAlone
<1>7. CASE ConnectTipDone
  <2>1. job'.at # "txs" /\ job.kind = "connect"
    BY <1>7 DEF ConnectTipDone, FlushIfNeeded, Idle
  <2>2. CASE Passed /\ coins' = FlushView(coins)
    BY <2>1, <2>2, CoinsFlushed DEF Passed
  <2>3. CASE coins' = DropView(coins)
    BY <2>1, <2>3, CoinsDropped
  <2> QED BY <1>7, <2>2, <2>3 DEF ConnectTipDone
<1>8. CASE TestBlockValidityDone
  BY <1>8, CoinsDropped DEF TestBlockValidityDone, Idle
<1>9. CASE BeginDisconnect \/ BeginVerifyDB
  <2>1. job'.at = "undo" /\ coins' = coins /\ job.kind = "none"
    BY <1>9, BeginUndo
  <2> QED BY <2>1, CoinsAlone
<1>10. CASE DisconnectTipDone
  <2>1. job'.at # "txs" /\ job.kind = "disconnect"
    BY <1>10 DEF DisconnectTipDone, FlushIfNeeded, Idle
  <2>2. CASE ~job.fail /\ coins' = FlushView(coins)
    BY <2>1, <2>2, CoinsFlushed
  <2>3. CASE coins' = DropView(coins)
    BY <2>1, <2>3, CoinsDropped
  <2> QED BY <1>10, <2>2, <2>3 DEF DisconnectTipDone
<1>11. CASE VerifyUndone
  <2>1. CASE LeaveVerifyDB
    BY <2>1, CoinsDropped DEF LeaveVerifyDB, Idle
  <2>2. CASE coins' = coins /\ EnterDisconnectBlock("verify", Parent[job.block], job.fail)
    <3>1. job'.kind = "verify" /\ job'.at = "undo" /\ job.kind = "verify"
      BY <1>11, <2>2 DEF VerifyUndone, EnterDisconnectBlock
    <3> QED BY <2>2, <3>1, CoinsAlone
  <2>3. CASE coins' = coins /\ job' = [job EXCEPT !.at = "again", !.block = Parent[job.block]]
    <3>1. job'.kind = "verify" /\ job'.at = "again" /\ job.kind = "verify"
      BY <1>11, <2>3 DEF VerifyUndone, JobInv
    <3> QED BY <2>3, <3>1, CoinsAlone
  <2> QED BY <1>11, <2>1, <2>2, <2>3 DEF VerifyUndone
<1>12. CASE VerifyReconnect
  <2> DEFINE b == Path[tipBest][Height(job.block) + 1]
  <2>1. job.at = "again" /\ job.kind = "verify" /\ EnterConnectBlock("verify", b)
    BY <1>12 DEF VerifyReconnect, JobInv
  <2>2. b \in Blocks
    BY <2>1, NextOnPath, BelowBlocks DEF JobInv
  <2>3. \E S : coins' = FetchView(coins, S)
    BY <2>1 DEF EnterConnectBlock
  <2>4. SameTip(coins, coins')
    BY <2>3, FetchViewSound DEF CoinsInv
  <2> HIDE DEF b
  <2> QED BY <2>1, <2>2, <2>4, CoinsEnter, StillMove
<1>13. CASE VerifyReconnected
  <2>1. CASE LeaveVerifyDB
    BY <2>1, CoinsDropped DEF LeaveVerifyDB, Idle
  <2>2. CASE coins' = coins /\ job' = [Idle EXCEPT !.kind = "verify", !.at = "again", !.block = job.block]
    <3>1. job'.kind = "verify" /\ job'.at = "again" /\ job.kind = "verify"
      BY <1>13, <2>2 DEF VerifyReconnected, Idle
    <3> QED BY <2>2, <3>1, CoinsAlone
  <2> QED BY <1>13, <2>1, <2>2 DEF VerifyReconnected
<1>14. CASE WriteIndex
  <2>1. job'.at # "txs" /\ coins' = coins /\ job.kind = "none"
    BY <1>14 DEF WriteIndex, Idle
  <2> QED BY <2>1, CoinsAlone
<1>15. CASE FlushCoins
  <2>1. /\ job.kind = "none" /\ job' = Idle /\ job'.at # "txs" /\ coins' = FlushTip(coins) /\ dbBest' = tipBest
    BY <1>15 DEF FlushCoins, JobInv, Idle
  <2>2. /\ Layers(coins') /\ TipSound(coins') /\ ViewSound(coins') /\ coins'.view = EmptyCache
        /\ \A t \in Txids : coins'.db[t] = TipCoins(coins', t) /\ Same(coins'.db[t], TipCoins(coins, t))
    BY <2>1, FlushTipSound DEF CoinsInv
  <2>3. Shows(coins, coins')
    BY <2>2 DEF Shows
  <2> QED BY <2>1, <2>2, <2>3, CoinsEnd DEF CoinsMove
<1>16. CASE Restart
  <2>1. job'.at # "txs" /\ coins' = Reopened(coins) /\ tipBest' = dbBest
    BY <1>16 DEF Restart, Idle
  <2>2. /\ Layers(coins') /\ TipSound(coins') /\ ViewSound(coins') /\ coins'.view = EmptyCache
        /\ coins'.db = coins.db /\ \A t \in Txids : TipCoins(coins', t) = coins.db[t]
    BY <2>1, ReopenedSound
  <2> QED BY <2>1, <2>2, CoinsEnd DEF CoinsMove
<1> QED BY <1>1, <1>2, <1>3, <1>4, <1>5, <1>6, <1>7, <1>8, <1>9, <1>10, <1>11, <1>12, <1>13,
           <1>14, <1>15, <1>16 DEF Next, ConnectNext, DisconnectNext, VerifyNext, DiskNext

LEMMA CoinsInvariant == Spec => [](JobInv /\ CoinsInv)
<1>1. JobInv /\ CoinsInv /\ [Next]_vars => (JobInv /\ CoinsInv)'
  BY JobStep, CoinsStep
<1> QED BY <1>1, JobInit, CoinsInit, PTL DEF Spec

\* No flag of a cached entry ever promises what is not so, for every block
\* tree and every content of its blocks (coins.cpp, and ConnectBlock's check of
\* BIP30 before UpdateCoins).
THEOREM FlagsCorrect == Spec => []FlagsSound
<1>1. CoinsInv => FlagsSound
  BY DEF CoinsInv, FlagsSound
<1> QED BY <1>1, CoinsInvariant, PTL

\* Every step moves the coins that pcoinsTip shows as CoinsMove says: nothing
\* is lost or revived in a flush, and nothing else changes them.
THEOREM CoinsMoveOnlyByFlush == Spec => [][CoinsMove]_vars
<1>1. JobInv /\ CoinsInv /\ [Next]_vars => [CoinsMove]_vars
  BY CoinsStep
<1> QED BY <1>1, CoinsInvariant, PTL DEF Spec
=============================================================================

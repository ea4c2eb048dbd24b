------------------------ MODULE BlockValidationProofs ------------------------
(***************************************************************************)
(* Proofs about BlockValidation for every block tree, every content of the *)
(* blocks, every number of threads and every size of a batch: Wait() is    *)
(* exact and the queue is idle between two blocks.                         *)
(***************************************************************************)
EXTENDS BlockValidation, CheckQueueProofs, BlockTreeProofs

-----------------------------------------------------------------------------
(* The job of the thread that holds cs_main.                               *)

JobInv ==
    /\ world \in Worlds /\ tipBest \in Blocks /\ dbBest \in Blocks
    /\ job = [kind |-> job.kind, at |-> job.at, block |-> job.block, i |-> job.i,
              fail |-> job.fail, undo |-> job.undo]
    /\ job.block \in Blocks /\ job.i \in Nat /\ (job.at = "txs" => job.i > 0)
    /\ job.kind = "none" <=> job.at \in {"idle", "write", "flush"}
    /\ job.at = "again" => job.kind = "verify" /\ job.block \in (Below(tipBest) \cup {Genesis}) \ {tipBest}
    /\ job.kind = "verify" /\ job.at # "again" => job.block \in Below(tipBest)

LEMMA TxsOf ==
  ASSUME JobInv, NEW b \in Blocks
  PROVE  Txs(b) \in Seq(Txids) /\ Len(Txs(b)) \in Nat
  BY ContentAssumption DEF JobInv, Txs

LEMMA OwnPath ==
  ASSUME NEW b \in Blocks \ {Genesis}
  PROVE  b \in Below(b) /\ Parent[b] \in Blocks
  BY BelowStep

\* The forms a job takes.
LEMMA IdleJob ==
  ASSUME JobInv, world' = world, tipBest' \in Blocks, dbBest' \in Blocks,
         job' = Idle \/ job' = [Idle EXCEPT !.at = "write"] \/ job' = [Idle EXCEPT !.at = "flush"]
  PROVE  JobInv' /\ job'.kind = "none" /\ job'.at \in {"idle", "write", "flush"}
<1>1. /\ job' = [kind |-> "none", at |-> job'.at, block |-> Genesis, i |-> 0, fail |-> FALSE, undo |-> << >>]
      /\ job'.at \in {"idle", "write", "flush"}
  BY DEF Idle
<1>2. Genesis \in Blocks
  BY TreeAssumption
<1> QED BY <1>1, <1>2 DEF JobInv

LEMMA UndoJob ==
  ASSUME JobInv, UNCHANGED <<world, tipBest, dbBest>>, NEW kind \in {"disconnect", "verify"},
         NEW b \in Below(tipBest), NEW fail, EnterDisconnectBlock(kind, b, fail)
  PROVE  JobInv' /\ job'.kind = kind /\ job'.at = "undo"
<1>1. b \in Blocks
  BY BelowBlocks DEF JobInv
<1>2. Len(Txs(b)) \in Nat
  BY <1>1, TxsOf
<1>3. job' = [kind |-> kind, at |-> "undo", block |-> b, undo |-> << >>, i |-> job'.i, fail |-> job'.fail]
      /\ job'.i \in Nat
  BY <1>2 DEF EnterDisconnectBlock
<1>4. Below(tipBest)' = Below(tipBest)
  BY DEF Below
<1> QED BY <1>1, <1>3, <1>4 DEF JobInv

LEMMA ConnectJob ==
  ASSUME JobInv, NEW kind \in {"connect", "check", "verify"}, NEW b \in Blocks,
         kind = "verify" => b \in Below(tipBest), EnterConnectBlock(kind, b)
  PROVE  /\ JobInv' /\ job'.kind = kind /\ job'.at \in {"txs", "wait"}
         /\ job'.block = b /\ job'.i = 1
<1>1. /\ job' = [kind |-> kind, at |-> job'.at, block |-> b, i |-> 1, fail |-> job'.fail, undo |-> << >>]
      /\ job'.at \in {"txs", "wait"} /\ UNCHANGED <<world, tipBest, dbBest>>
  BY DEF EnterConnectBlock
<1>2. Below(tipBest)' = Below(tipBest)
  BY <1>1 DEF Below
<1> QED BY <1>1, <1>2 DEF JobInv

LEMMA LeaveJob ==
  ASSUME JobInv, job.at = "txs", NEW fail, Leave(fail), UNCHANGED <<world, tipBest, dbBest>>
  PROVE  /\ JobInv' /\ job'.kind = job.kind /\ job'.at = "wait"
         /\ job'.block = job.block /\ job'.i = job.i
<1>1. job' = [job EXCEPT !.at = "wait", !.fail = fail]
  BY DEF Leave
<1>2. Below(tipBest)' = Below(tipBest)
  BY DEF Below
<1> QED BY <1>1, <1>2 DEF JobInv

LEMMA JobInit == Init => JobInv
  BY TreeAssumption DEF Init, JobInv, Idle
LEMMA JobStep == JobInv /\ [Next]_vars => JobInv'
<1> SUFFICES ASSUME JobInv, [Next]_vars PROVE JobInv'
  OBVIOUS
<1>0. ASSUME UNCHANGED <<world, tipBest, dbBest, job>> PROVE JobInv'
  BY <1>0 DEF JobInv, Below
<1>1. CASE UNCHANGED vars \/ ThreadNext \/ \E t \in LookedUp : LookUp(t) \/ UncacheCoins(t)
  BY <1>0, <1>1 DEF vars, chainVars, ThreadNext, LookUp, UncacheCoins
<1>2. ASSUME NEW b \in Blocks, NEW kind \in {"connect", "check"}, BeginConnect(kind, b) PROVE JobInv'
  BY <1>2, ConnectJob DEF BeginConnect
<1>3. CASE ConnectTx
  <2> USE <1>3
  <2>1. job.at = "txs" /\ UNCHANGED <<world, tipBest, dbBest>>
    BY DEF ConnectTx
  <2>2. CASE Leave(TRUE)
    BY <2>1, <2>2, LeaveJob
  <2>3. CASE \E u : job' = [job EXCEPT !.i = @ + 1, !.undo = u]
    <3>1. Below(tipBest)' = Below(tipBest)
      BY <2>1 DEF Below
    <3>2. PICK u : job' = [job EXCEPT !.i = @ + 1, !.undo = u]
      BY <2>3
    <3>3. job' = [kind |-> job.kind, at |-> "txs", block |-> job.block, i |-> job.i + 1,
                  fail |-> job.fail, undo |-> u]
      BY <2>1, <3>2 DEF JobInv
    <3>4. job.i + 1 \in Nat /\ job.i + 1 > 0
      BY DEF JobInv
    <3> QED BY <2>1, <3>1, <3>3, <3>4 DEF JobInv
  <2> QED BY <2>2, <2>3 DEF ConnectTx
<1>4. CASE CloseTxs
  BY <1>4, LeaveJob DEF CloseTxs, chainVars
<1>5. CASE ConnectTipDone
  BY <1>5, IdleJob DEF ConnectTipDone, FlushIfNeeded, JobInv
<1>6. CASE TestBlockValidityDone
  BY <1>6, IdleJob DEF TestBlockValidityDone, JobInv
<1>7. CASE BeginDisconnect \/ BeginVerifyDB
  <2>1. tipBest \in Below(tipBest)
    BY <1>7, OwnPath DEF JobInv, BeginDisconnect, BeginVerifyDB
  <2> QED BY <1>7, <2>1, UndoJob DEF BeginDisconnect, BeginVerifyDB, chainVars
<1>8. CASE UndoTx
  <2>1. job.at = "undo" /\ job.i > 0 /\ UNCHANGED <<world, tipBest, dbBest>>
    BY <1>8 DEF UndoTx
  <2>2. PICK f : job' = [job EXCEPT !.i = @ - 1, !.fail = f]
    BY <1>8 DEF UndoTx
  <2>3. Below(tipBest)' = Below(tipBest)
    BY <2>1 DEF Below
  <2>4. job' = [kind |-> job.kind, at |-> "undo", block |-> job.block, i |-> job.i - 1,
                fail |-> f, undo |-> job.undo]
    BY <2>1, <2>2 DEF JobInv
  <2>5. job.i - 1 \in Nat
    BY <2>1 DEF JobInv
  <2> QED BY <2>1, <2>3, <2>4, <2>5 DEF JobInv
<1>9. CASE DisconnectTipDone
  <2>1. tipBest' \in Blocks
    BY <1>9, TreeAssumption DEF DisconnectTipDone, JobInv
  <2> QED BY <1>9, <2>1, IdleJob DEF DisconnectTipDone, FlushIfNeeded, JobInv
<1>10. CASE VerifyUndone
  <2>1. /\ job.kind = "verify" /\ job.at = "undo" /\ UNCHANGED <<world, tipBest, dbBest>>
    BY <1>10 DEF VerifyUndone, Undone
  <2>2. /\ job.block \in Below(tipBest) /\ Parent[job.block] \in Blocks
        /\ Parent[job.block] \in (Below(tipBest) \cup {Genesis}) \ {tipBest}
    BY <2>1, ParentBelow DEF JobInv
  <2>3. CASE Parent[job.block] # Genesis /\ EnterDisconnectBlock("verify", Parent[job.block], job.fail)
    BY <2>1, <2>2, <2>3, UndoJob
  <2>4. CASE job' = Idle
    BY <2>1, <2>4, IdleJob DEF JobInv
  <2>5. CASE job' = [job EXCEPT !.at = "again", !.block = Parent[job.block]]
    <3>1. Below(tipBest)' = Below(tipBest)
      BY <2>1 DEF Below
    <3> QED BY <2>1, <2>2, <2>5, <3>1 DEF JobInv
  <2> QED BY <1>10, <2>3, <2>4, <2>5 DEF VerifyUndone, LeaveVerifyDB
<1>11. CASE VerifyReconnect
  <2>1. Path[tipBest][Height(job.block) + 1] \in Below(tipBest)
    BY <1>11, NextOnPath DEF VerifyReconnect, JobInv
  <2>2. Path[tipBest][Height(job.block) + 1] \in Blocks
    BY <2>1, BelowBlocks DEF JobInv
  <2> QED BY <1>11, <2>1, <2>2, ConnectJob DEF VerifyReconnect
<1>12. CASE VerifyReconnected
  <2>1. /\ job.kind = "verify" /\ job.at = "wait" /\ UNCHANGED <<world, tipBest, dbBest>>
    BY <1>12 DEF VerifyReconnected, Returning
  <2>2. CASE job' = Idle
    BY <2>1, <2>2, IdleJob DEF JobInv
  <2>3. CASE job.block # tipBest /\ job' = [Idle EXCEPT !.kind = "verify", !.at = "again", !.block = job.block]
    <3>1. Below(tipBest)' = Below(tipBest)
      BY <2>1 DEF Below
    <3>2. job' = [kind |-> "verify", at |-> "again", block |-> job.block, i |-> 0, fail |-> FALSE, undo |-> << >>]
      BY <2>3 DEF Idle
    <3>3. job.block \in (Below(tipBest) \cup {Genesis}) \ {tipBest}
      BY <2>1, <2>3 DEF JobInv
    <3> QED BY <2>1, <3>1, <3>2, <3>3 DEF JobInv
  <2> QED BY <1>12, <2>2, <2>3 DEF VerifyReconnected, LeaveVerifyDB
<1>13. CASE WriteIndex \/ FlushCoins \/ Restart
  BY <1>13, IdleJob DEF WriteIndex, FlushCoins, Restart, JobInv
<1> QED
  BY <1>1, <1>2, <1>3, <1>4, <1>5, <1>6, <1>7, <1>8, <1>9, <1>10, <1>11, <1>12, <1>13
     DEF Next, ConnectNext, DisconnectNext, VerifyNext, DiskNext
-----------------------------------------------------------------------------
(* The queue.  The checks of the block at hand are out while ConnectBlock  *)
(* is in its loop and while it waits; otherwise nothing is pending.        *)

PhaseInv ==
    /\ Shape /\ Counts /\ Agreed
    /\ pc[Master] # "out" => job.at = "wait" /\ Checking(job.kind, job.block)
    /\ job.at # "txs" /\ pc[Master] = "out" => Pending = {} /\ fAllOk
    /\ job.at = "txs" /\ ~Checking(job.kind, job.block) => Pending = {} /\ fAllOk
    /\ Checking(job.kind, job.block) /\ (job.at = "txs" \/ pc[Master] # "out") => Exact(Added)
    /\ WaitIsExact

\* Nothing is pending, and no job has checks of its own: the rest of PhaseInv.
Quiet ==
    /\ Shape /\ Counts /\ Agreed
    /\ pc[Master] = "out" /\ Pending = {} /\ fAllOk
    /\ job.at = "txs" \/ (job.at = "wait" /\ Checking(job.kind, job.block)) => job.i = 1

LEMMA QuietPhase == Quiet => PhaseInv
<1> SUFFICES ASSUME Quiet PROVE PhaseInv
  OBVIOUS
<1>1. job.i = 1 => Added = {}
  BY DEF Added
<1>2. job.at = "txs" => Exact(Added)
  BY <1>1 DEF Exact, Quiet
<1>3. WaitIsExact
  BY DEF WaitIsExact, Returning, Quiet
<1> QED BY <1>2, <1>3 DEF PhaseInv, Quiet

LEMMA QuietNext == Quiet' => PhaseInv'
  BY QuietPhase, PTL

LEMMA QueueStarts == QueueInit /\ job = Idle => Quiet
<1> SUFFICES ASSUME QueueInit, job = Idle PROVE Quiet
  OBVIOUS
<1> USE DEF QueueInit
<1>1. Queued = {}
  BY DEF Queued
<1>2. Pending = {}
  BY <1>1 DEF Pending
<1>3. InLoop = {} /\ AtWait = {}
  BY DEF InLoop, AtWait
<1>4. Counts
  BY <1>2, <1>3, FS_EmptySet DEF Counts
<1>5. Shape
  BY <1>1 DEF Shape
<1> QED BY <1>2, <1>4, <1>5 DEF Agreed, Threads, Quiet, Idle

LEMMA QueueRestarts == QueueInit' /\ job' = Idle => Quiet'
<1>1. (QueueInit /\ job = Idle => Quiet)'
  BY QueueStarts, PTL
<1> QED BY <1>1 DEF Idle

LEMMA PhaseThreads ==
  ASSUME PhaseInv, ThreadNext
  PROVE  PhaseInv'
<1>1. PICK t \in Threads : QueueStep(t) /\ UNCHANGED <<chainVars, job>>
  BY DEF ThreadNext
<1>2. Shape /\ Counts /\ Agreed
  BY DEF PhaseInv
<1>3. Shape' /\ Counts' /\ Agreed'
  BY <1>1, <1>2, StepKeepsCounts
<1>4. job' = job /\ world' = world
  BY <1>1 DEF chainVars
<1>5. Added' = Added
  BY <1>4 DEF Added, Txs
<1>6. CASE Checking(job.kind, job.block) /\ (job.at = "txs" \/ pc[Master] # "out")
  <2>1. Exact(Added)
    BY <1>6 DEF PhaseInv
  <2>2. CASE /\ Pending' \subseteq Added
             /\ fAllOk' => Added \ Pending' \subseteq Good
             /\ ~fAllOk' => ~(Added \subseteq Good)
             /\ verdict' = verdict
             /\ pc'[Master] = "out" <=> pc[Master] = "out"
    <3>1. Exact(Added)'
      BY <1>5, <2>2 DEF Exact
    <3> QED BY <1>3, <1>4, <1>6, <2>2, <3>1 DEF PhaseInv, WaitIsExact, Returning, Checking
  <2>3. CASE /\ pc[Master] # "out" /\ pc'[Master] = "out"
             /\ Pending' = {} /\ fAllOk' = TRUE
             /\ verdict' \in BOOLEAN /\ (verdict' <=> Added \subseteq Good)
    <3>1. job.at = "wait"
      BY <2>3 DEF PhaseInv
    <3> QED BY <1>3, <1>4, <1>5, <2>3, <3>1 DEF PhaseInv, WaitIsExact, Returning, Checking
  <2> QED BY <1>1, <1>2, <2>1, <2>2, <2>3, StepKeepsExact
<1>7. CASE ~(Checking(job.kind, job.block) /\ (job.at = "txs" \/ pc[Master] # "out"))
  <2>1. Pending = {} /\ fAllOk /\ pc[Master] = "out"
    BY <1>7 DEF PhaseInv
  <2>2. Exact({})
    BY <2>1 DEF Exact
  <2>3. /\ Pending' = {} /\ (~fAllOk' => ~({} \subseteq Good))
        /\ verdict' = verdict /\ pc'[Master] = "out"
    BY <1>1, <1>2, <2>1, <2>2, StepKeepsExact
  <2>4. fAllOk'
    BY <1>3, <2>3 DEF Agreed
  <2> QED BY <1>3, <1>4, <1>5, <1>7, <2>1, <2>3, <2>4 DEF PhaseInv, WaitIsExact, Returning, Checking
<1> QED BY <1>6, <1>7
\* The steps that begin to disconnect a block.
LEMMA BeginUndo ==
  ASSUME BeginDisconnect \/ BeginVerifyDB
  PROVE  /\ job.kind = "none" /\ job.at = "idle" /\ job'.at = "undo"
         /\ UNCHANGED queueVars /\ coins' = coins
<1>1. job = Idle /\ UNCHANGED queueVars /\ coins' = coins
  BY DEF BeginDisconnect, BeginVerifyDB, chainVars
<1>2. job'.at = "undo"
  <2>1. CASE BeginDisconnect
    BY <2>1 DEF BeginDisconnect, EnterDisconnectBlock
  <2>2. CASE BeginVerifyDB
    BY <2>2 DEF BeginVerifyDB, EnterDisconnectBlock
  <2> QED BY <2>1, <2>2
<1> QED BY <1>1, <1>2 DEF Idle

\* A step that changes no variable of the queue.
LEMMA QueueAlone ==
  ASSUME Shape, Counts, Agreed,
         UNCHANGED <<queue, nIdle, nTotal, nTodo, fAllOk, pc, batch, fOk, verdict>>
  PROVE  Shape' /\ Counts' /\ Agreed' /\ Pending' = Pending
<1>1. Queued' = Queued
  BY DEF Queued
<1>2. Pending' = Pending
  BY <1>1 DEF Pending
<1>3. Shape'
  BY <1>1 DEF Shape
<1>4. InLoop' = InLoop /\ AtWait' = AtWait
  BY DEF InLoop, AtWait
<1>5. Counts'
  BY <1>2, <1>4 DEF Counts
<1>6. Agreed'
  BY DEF Agreed
<1> QED BY <1>2, <1>3, <1>5, <1>6

\* A step that leaves the queue alone while nothing is pending.
LEMMA QuietStep ==
  ASSUME PhaseInv, UNCHANGED queueVars, job.at # "txs", pc[Master] = "out",
         job'.at = "txs" \/ (job'.at = "wait" /\ Checking(job'.kind, job'.block)) => job'.i = 1
  PROVE  PhaseInv'
<1>1. Shape' /\ Counts' /\ Agreed' /\ Pending' = Pending /\ pc' = pc /\ fAllOk' = fAllOk
  <2>1. UNCHANGED <<queue, nIdle, nTotal, nTodo, fAllOk, pc, batch, fOk, verdict>>
    BY DEF queueVars, counters
  <2>2. Shape /\ Counts /\ Agreed
    BY DEF PhaseInv
  <2> QED BY <2>1, <2>2, QueueAlone
<1>2. Pending = {} /\ fAllOk
  BY DEF PhaseInv
<1> QED BY <1>1, <1>2, QuietNext DEF Quiet, Checking

LEMMA EmptyChecks == << >> \in Seq(Checks) /\ Distinct(<< >>) /\ Elements(<< >>) = {}
<1>1. << >> \in Seq(Checks) /\ Len(<< >>) = 0
  OBVIOUS
<1>2. 1..0 = {}
  OBVIOUS
<1> QED BY <1>1, <1>2 DEF Distinct, Elements

LEMMA PhaseLeave ==
  ASSUME JobInv, PhaseInv, job.at = "txs", NEW fail, Leave(fail), UNCHANGED <<world, tipBest, dbBest>>
  PROVE  PhaseInv'
<1>1. /\ job'.kind = job.kind /\ job'.at = "wait"
      /\ job'.block = job.block /\ job'.i = job.i
  BY LeaveJob
<1>2. Added' = Added
  BY <1>1 DEF Added, Txs
<1>3. pc[Master] = "out" /\ Master \in Threads
  BY DEF PhaseInv, Threads
<1>4. UNCHANGED <<queue, nIdle, nTotal, nTodo, fAllOk, batch, fOk, verdict>>
  BY DEF Leave, CallWait, queueVars, counters
<1>5. Pending' = Pending
  BY <1>4 DEF Pending, Queued, Threads
<1>6. CASE ~Checking(job.kind, job.block)
  <2>1. pc' = pc
    BY <1>6 DEF Leave, queueVars
  <2>2. Shape' /\ Counts' /\ Agreed'
    <3>1. Shape /\ Counts /\ Agreed
      BY DEF PhaseInv
    <3> QED BY <1>4, <2>1, <3>1, QueueAlone
  <2>3. Pending = {} /\ fAllOk
    BY <1>6 DEF PhaseInv
  <2> QED BY <1>1, <1>3, <1>4, <1>5, <1>6, <2>1, <2>2, <2>3, QuietNext DEF Quiet, Checking
<1>7. CASE Checking(job.kind, job.block)
  <2>1. pc' = [pc EXCEPT ![Master] = "start"] /\ pc \in [Threads -> PCs]
    BY <1>7 DEF Leave, CallWait, PhaseInv, Shape, PCs
  <2>2. /\ pc' \in [Threads -> PCs] /\ pc'[Master] = "start"
        /\ \A t \in Threads : t # Master => pc'[t] = pc[t]
    BY <1>3, <2>1 DEF PCs
  <2>3. Shape'
    BY <1>3, <1>4, <2>2 DEF PhaseInv, Shape, Queued, Threads, PCs
  <2>4. InLoop' = InLoop /\ AtWait' = AtWait
    BY <1>3, <2>2 DEF InLoop, AtWait, Threads
  <2>5. Counts'
    BY <1>4, <1>5, <2>4 DEF PhaseInv, Counts
  <2>6. Agreed'
    BY <1>3, <1>4, <2>2 DEF PhaseInv, Agreed, Threads
  <2>7. Exact(Added)'
    BY <1>2, <1>4, <1>5, <1>7 DEF PhaseInv, Exact
  <2> QED BY <1>1, <1>7, <2>2, <2>3, <2>5, <2>6, <2>7 DEF PhaseInv, WaitIsExact, Returning, Checking
<1> QED BY <1>6, <1>7
LEMMA ChecksOfTx ==
  ASSUME NEW t \in Txids
  PROVE  /\ ChecksOf(t) \in Seq(Checks) /\ Distinct(ChecksOf(t))
         /\ Elements(ChecksOf(t)) = {t} \X (1..Len(Ins[t]))
<1>1. Len(Ins[t]) \in Nat
  BY ContentAssumption
<1>2. \A j \in 1..Len(Ins[t]) : <<t, j>> \in Checks
  BY ChecksAssumption
<1>3. ChecksOf(t) \in Seq(Checks) /\ Len(ChecksOf(t)) = Len(Ins[t])
  BY <1>1, <1>2 DEF ChecksOf
<1>4. \A j \in 1..Len(Ins[t]) : ChecksOf(t)[j] = <<t, j>>
  BY DEF ChecksOf
<1>5. Distinct(ChecksOf(t))
  BY <1>3, <1>4 DEF Distinct
<1>6. Elements(ChecksOf(t)) = {t} \X (1..Len(Ins[t]))
  <2>1. ASSUME NEW x \in Elements(ChecksOf(t)) PROVE x \in {t} \X (1..Len(Ins[t]))
    <3>1. PICK n \in 1..Len(Ins[t]) : x = ChecksOf(t)[n]
      BY <1>3 DEF Elements
    <3>2. x = <<t, n>>
      BY <1>4, <3>1
    <3> QED BY <3>2
  <2>2. \A j \in 1..Len(Ins[t]) : <<t, j>> \in Elements(ChecksOf(t))
    BY <1>3, <1>4 DEF Elements
  <2> QED BY <2>1, <2>2
<1> QED BY <1>3, <1>5, <1>6

LEMMA PhaseAdd ==
  ASSUME JobInv, PhaseInv, job.at = "txs", job.i <= Len(Txs(job.block)), ~Repeated(job.block, job.i),
         Add(IF Checking(job.kind, job.block) THEN ChecksOf(Txs(job.block)[job.i]) ELSE << >>),
         world' = world, job'.kind = job.kind, job'.at = "txs", job'.block = job.block,
         job'.i = job.i + 1
  PROVE  PhaseInv'
<1> DEFINE b == job.block
           t == Txs(b)[job.i]
           E == {t} \X (1..Len(Ins[t]))
<1>1. Shape /\ Counts /\ Agreed
  BY DEF PhaseInv
<1>2. job.i \in 1..Len(Txs(b)) /\ t \in Txids
  <2>1. Txs(b) \in Seq(Txids) /\ Len(Txs(b)) \in Nat
    BY TxsOf DEF JobInv
  <2>2. job.i \in 1..Len(Txs(b))
    BY <2>1 DEF JobInv
  <2> QED BY <2>1, <2>2
<1>3. pc[Master] = "out"
  BY DEF PhaseInv
<1>4. CASE ~Checking(job.kind, b)
  <2>1. Pending = {} /\ fAllOk /\ Add(<< >>)
    BY <1>4 DEF PhaseInv
  <2>2. << >> \in Seq(Checks) /\ Distinct(<< >>) /\ Elements(<< >>) = {}
    BY EmptyChecks
  <2>3. /\ Shape' /\ Counts' /\ Agreed' /\ Pending' = Pending \cup {}
        /\ fAllOk' = fAllOk /\ pc'[Master] = pc[Master]
    BY <1>1, <2>1, <2>2, AddKeeps
  <2>4. Pending' = {}
    BY <2>1, <2>3
  <2> QED BY <1>3, <1>4, <2>1, <2>3, <2>4 DEF PhaseInv, WaitIsExact, Returning, Checking
<1>5. CASE Checking(job.kind, b)
  <2>1. Exact(Added) /\ Add(ChecksOf(t))
    BY <1>5 DEF PhaseInv
  <2>2. E \cap Added = {}
    <3>1. \A k \in 1..(job.i - 1) : Txs(b)[k] # t
      BY DEF Repeated
    <3> QED BY <3>1 DEF Added
  <2>3. Elements(ChecksOf(t)) = E /\ ChecksOf(t) \in Seq(Checks) /\ Distinct(ChecksOf(t))
    BY <1>2, ChecksOfTx
  <2>4. Elements(ChecksOf(t)) \cap Pending = {}
    BY <2>1, <2>2, <2>3 DEF Exact
  <2>5. /\ Shape' /\ Counts' /\ Agreed' /\ Pending' = Pending \cup E
        /\ fAllOk' = fAllOk /\ pc'[Master] = pc[Master] /\ verdict' = verdict
    <3>1. /\ Shape' /\ Counts' /\ Agreed' /\ Pending' = Pending \cup Elements(ChecksOf(t))
          /\ fAllOk' = fAllOk /\ pc'[Master] = pc[Master] /\ verdict' = verdict
      <4> HIDE DEF t, E
      <4> QED BY <1>1, <2>1, <2>3, <2>4, AddKeeps
    <3> QED BY <2>3, <3>1
  <2>6. Added' = Added \cup E
    <3>1. Added' = UNION {{x} \X (1..Len(Ins[x])) : x \in {Txs(b)[k] : k \in 1..job.i}}
      <4>1. Txs(b)' = Txs(b) /\ (job.i + 1) - 1 = job.i
        BY <1>2 DEF Txs
      <4> QED BY <1>2, <4>1 DEF Added
    <3>2. {Txs(b)[k] : k \in 1..job.i} = {Txs(b)[k] : k \in 1..(job.i - 1)} \cup {t}
      <4>1. 1..job.i = 1..(job.i - 1) \cup {job.i}
        BY <1>2
      <4> HIDE DEF b
      <4> QED BY <4>1
    <3> QED BY <3>1, <3>2 DEF Added
  <2>7. Exact(Added)'
    <3> HIDE DEF E
    <3> QED BY <2>1, <2>5, <2>6 DEF Exact
  <2> QED BY <1>3, <1>5, <2>5, <2>7 DEF PhaseInv, WaitIsExact, Returning, Checking
<1> QED BY <1>4, <1>5
LEMMA PhaseStep == JobInv /\ PhaseInv /\ [Next]_vars => PhaseInv'
<1> SUFFICES ASSUME JobInv, PhaseInv, [Next]_vars PROVE PhaseInv'
  OBVIOUS
<1>0. ASSUME UNCHANGED <<world, job, queueVars>> PROVE PhaseInv'
  <2>1. UNCHANGED <<world, job, queue, nIdle, nTotal, nTodo, fAllOk, pc, batch, fOk, verdict>>
    BY <1>0 DEF queueVars, counters
  <2>2. Shape' /\ Counts' /\ Agreed' /\ Pending' = Pending
    <3>1. Shape /\ Counts /\ Agreed
      BY DEF PhaseInv
    <3> QED BY <2>1, <3>1, QueueAlone
  <2>3. Added' = Added
    BY <2>1 DEF Added, Txs
  <2>4. Exact(Added) => Exact(Added)'
    BY <2>1, <2>2, <2>3 DEF Exact
  <2>5. WaitIsExact'
    BY <2>1, <2>2, <2>3 DEF PhaseInv, WaitIsExact, Returning, Checking
  <2> QED BY <2>1, <2>2, <2>4, <2>5 DEF PhaseInv, Checking
<1>1. CASE UNCHANGED vars \/ \E t \in LookedUp : LookUp(t) \/ UncacheCoins(t)
  BY <1>0, <1>1 DEF vars, chainVars, LookUp, UncacheCoins
<1>2. CASE ThreadNext
  BY <1>2, PhaseThreads
<1>3. job.at # "wait" => pc[Master] = "out"
  BY DEF PhaseInv
<1>4. ASSUME NEW b \in Blocks, NEW kind \in {"connect", "check"}, BeginConnect(kind, b) PROVE PhaseInv'
  <2>1. job.at = "idle" /\ EnterConnectBlock(kind, b)
    BY <1>4 DEF BeginConnect, Idle
  <2>2. job'.i = 1
    BY <2>1, ConnectJob
  <2> QED BY <1>3, <2>1, <2>2, QuietStep DEF EnterConnectBlock
<1>5. CASE ConnectTx
  <2>1. job.at = "txs" /\ job.i <= Len(Txs(job.block)) /\ UNCHANGED <<world, tipBest, dbBest>>
    BY <1>5 DEF ConnectTx
  <2>2. CASE Leave(TRUE)
    BY <2>1, <2>2, PhaseLeave
  <2>3. CASE /\ ~Repeated(job.block, job.i)
             /\ Add(IF Checking(job.kind, job.block) THEN ChecksOf(Txs(job.block)[job.i]) ELSE << >>)
             /\ \E u : job' = [job EXCEPT !.i = @ + 1, !.undo = u]
    <3>1. PICK u : job' = [job EXCEPT !.i = @ + 1, !.undo = u]
      BY <2>3
    <3>2. /\ job'.kind = job.kind /\ job'.at = "txs" /\ job'.block = job.block
          /\ job'.i = job.i + 1
      BY <2>1, <3>1 DEF JobInv
    <3> QED BY <2>1, <2>3, <3>2, PhaseAdd
  <2> QED BY <1>5, <2>2, <2>3 DEF ConnectTx
<1>6. CASE CloseTxs
  BY <1>6, PhaseLeave DEF CloseTxs, chainVars
<1>7. CASE ConnectTipDone \/ TestBlockValidityDone \/ VerifyReconnected
  <2>1. job.at = "wait" /\ pc[Master] = "out" /\ UNCHANGED queueVars
    BY <1>7 DEF ConnectTipDone, TestBlockValidityDone, VerifyReconnected, Returning
  <2>2. job'.at \in {"idle", "write", "again"}
    <3>1. \/ job' = Idle \/ job' = [Idle EXCEPT !.at = "write"]
          \/ job' = [Idle EXCEPT !.kind = "verify", !.at = "again", !.block = job.block]
      BY <1>7 DEF ConnectTipDone, TestBlockValidityDone, VerifyReconnected, LeaveVerifyDB, FlushIfNeeded
    <3>2. CASE job' = Idle \/ job' = [Idle EXCEPT !.at = "write"]
      BY <3>2 DEF Idle
    <3>3. CASE job' = [Idle EXCEPT !.kind = "verify", !.at = "again", !.block = job.block]
      BY <3>3 DEF Idle
    <3> QED BY <3>1, <3>2, <3>3
  <2> QED BY <2>1, <2>2, QuietStep
<1>8. CASE BeginDisconnect \/ BeginVerifyDB
  <2>1. job.at = "idle" /\ job'.at = "undo" /\ UNCHANGED queueVars
    BY <1>8, BeginUndo
  <2> QED BY <1>3, <2>1, QuietStep
<1>9. CASE UndoTx \/ DisconnectTipDone \/ VerifyUndone
  <2>1. job.at = "undo" /\ UNCHANGED queueVars
    BY <1>9 DEF UndoTx, DisconnectTipDone, VerifyUndone, Undone
  <2>2. job'.at \in {"undo", "idle", "write", "again"}
    <3>1. CASE UndoTx
      BY <2>1, <3>1 DEF UndoTx, JobInv
    <3>2. CASE DisconnectTipDone
      BY <3>2 DEF DisconnectTipDone, FlushIfNeeded, Idle
    <3>3. CASE VerifyUndone
      <4>1. \/ EnterDisconnectBlock("verify", Parent[job.block], job.fail)
            \/ job' = Idle
            \/ job' = [job EXCEPT !.at = "again", !.block = Parent[job.block]]
        BY <3>3 DEF VerifyUndone, LeaveVerifyDB
      <4>2. CASE EnterDisconnectBlock("verify", Parent[job.block], job.fail)
        BY <4>2 DEF EnterDisconnectBlock
      <4>3. CASE job' = Idle
        BY <4>3 DEF Idle
      <4>4. CASE job' = [job EXCEPT !.at = "again", !.block = Parent[job.block]]
        BY <4>4 DEF JobInv
      <4> QED BY <4>1, <4>2, <4>3, <4>4
    <3> QED BY <1>9, <3>1, <3>2, <3>3
  <2> QED BY <1>3, <2>1, <2>2, QuietStep
<1>10. CASE VerifyReconnect
  <2>1. Path[tipBest][Height(job.block) + 1] \in Below(tipBest)
    BY <1>10, NextOnPath DEF VerifyReconnect, JobInv
  <2>2. Path[tipBest][Height(job.block) + 1] \in Blocks
    BY <2>1, BelowBlocks DEF JobInv
  <2>3. job'.i = 1
    BY <1>10, <2>1, <2>2, ConnectJob DEF VerifyReconnect
  <2> QED BY <1>3, <1>10, <2>3, QuietStep DEF VerifyReconnect, EnterConnectBlock
<1>11. CASE WriteIndex \/ FlushCoins
  <2>1. job.at \in {"idle", "write", "flush"} /\ job'.at \in {"idle", "flush"} /\ UNCHANGED queueVars
    BY <1>11 DEF WriteIndex, FlushCoins, Idle
  <2> QED BY <1>3, <2>1, QuietStep
<1>12. CASE Restart
  <2>1. QueueInit' /\ job' = Idle
    BY <1>12 DEF Restart, QueueInit, Threads
  <2> QED BY <2>1, QueueRestarts, QuietNext
<1> QED
  BY <1>1, <1>2, <1>4, <1>5, <1>6, <1>7, <1>8, <1>9, <1>10, <1>11, <1>12
     DEF Next, ConnectNext, DisconnectNext, VerifyNext, DiskNext

LEMMA PhaseInvariant == Spec => []PhaseInv
<1>1. Init => JobInv /\ PhaseInv
  <2> SUFFICES ASSUME Init PROVE PhaseInv
    BY JobInit
  <2> QED BY QueueStarts, QuietPhase DEF Init
<1>2. JobInv /\ PhaseInv /\ [Next]_vars => (JobInv /\ PhaseInv)'
  BY JobStep, PhaseStep
<1> QED BY <1>1, <1>2, PTL DEF Spec

\* Wait() returns whether every check that was handed to the queue passed, and
\* leaves none behind, for any number of threads (checkqueue.h, and the
\* control of ConnectBlock).
THEOREM WaitCorrect == Spec => []WaitIsExact
<1>1. PhaseInv => WaitIsExact
  BY DEF PhaseInv
<1> QED BY <1>1, PhaseInvariant, PTL

\* Between two blocks the queue is idle: the assertion in the constructor of
\* CCheckQueueControl never fails.
THEOREM QueueIdle == Spec => []QueueIdleOutside
<1>1. PhaseInv => QueueIdleOutside
  <2> SUFFICES ASSUME PhaseInv, job.at \notin {"txs", "wait"} PROVE IsIdle
    BY DEF QueueIdleOutside
  <2>1. Pending = {} /\ fAllOk
    BY DEF PhaseInv
  <2>2. \A t \in Threads : batch[t] = {}
    BY <2>1 DEF Pending
  <2>3. InLoop = AtWait
    BY <2>2 DEF PhaseInv, Shape, InLoop, AtWait
  <2>4. nTodo = 0
    BY <2>1, FS_EmptySet DEF PhaseInv, Counts
  <2> QED BY <2>1, <2>3, <2>4 DEF PhaseInv, Counts, IsIdle
<1> QED BY <1>1, PhaseInvariant, PTL
=============================================================================

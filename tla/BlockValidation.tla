--------------------------- MODULE BlockValidation ---------------------------
(***************************************************************************)
(* How a block changes the coins (main.cpp): ConnectBlock with its script  *)
(* checks in the hands of the CheckQueue's threads, DisconnectBlock with   *)
(* the undo data, VerifyDB, the writing of the block index and the coins,  *)
(* and a restart.  All of it runs under cs_main, in the thread that is the *)
(* queue's master; `job` is where that thread is.  Which block is to be    *)
(* connected or disconnected is ChainState's business: here it is any      *)
(* child of the tip, or the tip.                                           *)
(*                                                                         *)
(* Transactions of the Sigma and Zerocoin kinds, whose inputs are not      *)
(* outputs, have no inputs here; what else ConnectBlock does with them is  *)
(* in SigmaState.                                                          *)
(***************************************************************************)
EXTENDS CoinsCache, CheckQueue

CONSTANTS
    LookedUp,           \* transactions that RPCs and the mempool look up
    fAddressIndex,      \* -addressindex
    NoUndo              \* a null GetUndoPos()

\* There is a script check for every input.
ASSUME ChecksAssumption ==
    /\ LookedUp \subseteq Txids
    /\ Checks = UNION {{t} \X (1..Len(Ins[t])) : t \in Txids}
    /\ Good = Checks \ BadScripts

VARIABLES
    world,              \* the content of the blocks; never changes
    coins,              \* the layers of CoinsCache
    tipBest, dbBest,    \* hashBlock of pcoinsTip, the tip; DB_BEST_BLOCK
    undo, undoDisk,     \* undo data by block: in the index; in the index on disk
    addrIndex,          \* the blocks whose entries the address index has
    job                 \* where the thread that holds cs_main is

chainVars == <<world, coins, tipBest, dbBest, undo, undoDisk, addrIndex>>
vars == <<chainVars, job, queueVars>>

\* kind: what the thread does; at: where it is; block, i: the block and the
\* transaction; fail: an early return of ConnectBlock, or fClean is false;
\* undo: blockundo.
Idle == [kind |-> "none", at |-> "idle", block |-> Genesis, i |-> 0, fail |-> FALSE, undo |-> << >>]

Txs(b) == world[b]

\* fScriptChecks.  The index entry that TestBlockValidity makes for the block is
\* no ancestor of a checkpoint, whatever the block is.
Checking(kind, b) == kind = "check" \/ b \notin Checkpointed

ChecksOf(t) == [j \in 1..Len(Ins[t]) |-> <<t, j>>]
Prevs(t) == {Ins[t][j][1] : j \in 1..Len(Ins[t])}
SpentOf(t, p) == {Ins[t][j][2] : j \in {k \in 1..Len(Ins[t]) : Ins[t][k][1] = p}}
FromTx(t, b) == [outs |-> Outs[t], height |-> Height(b), cb |-> t \in Coinbase]

Init ==
    /\ world \in Worlds
    /\ coins = [db |-> [t \in Txids |-> NoCoins], tip |-> EmptyCache, view |-> EmptyCache]
    /\ tipBest = Genesis /\ dbBest = Genesis
    /\ undo = [b \in Blocks |-> NoUndo] /\ undoDisk = undo
    /\ addrIndex = {}
    /\ job = Idle
    /\ QueueInit

-----------------------------------------------------------------------------
\* ConnectBlock up to its loop, on the view of layers c: BIP30, and then the
\* constructor of the control, which asserts that the queue is idle.  Lookups
\* stop at the first transaction that has unspent outputs.
Overwrites(c, b) == {i \in 1..Len(Txs(b)) : ~Pruned(ViewCoins(c, Txs(b)[i]))}
EnterConnectBlock(kind, b) ==
    LET bad == Overwrites(coins, b)
        S   == {Txs(b)[i] : i \in {k \in 1..Len(Txs(b)) : \A m \in bad : k <= m}}
    IN  /\ coins' = FetchView(coins, S)
        /\ bad = {} /\ Checking(kind, b) => IsIdle
        /\ job' = [kind |-> kind, at |-> IF bad = {} THEN "txs" ELSE "wait", block |-> b,
                   i |-> 1, fail |-> bad # {}, undo |-> << >>]
        /\ UNCHANGED <<world, tipBest, dbBest, undo, undoDisk, addrIndex, queueVars>>

\* ConnectTip ("connect") and TestBlockValidity ("check").
BeginConnect(kind, b) ==
    /\ job = Idle /\ b # Genesis /\ Parent[b] = tipBest
    /\ EnterConnectBlock(kind, b)

\* Mutant of Premature: one block more is needed.
PrematureByOne(c, t, b) == \E p \in Prevs(t) : LET k == ViewCoins(c, p)
                                               IN  k.cb /\ Height(b) - k.height <= CoinbaseMaturity

\* HaveInputs looks at the inputs in order, up to the first that is missing;
\* CheckTxInputs then at the age of coinbases.
Missing(c, t) == {j \in 1..Len(Ins[t]) : Ins[t][j][2] \notin ViewCoins(c, Ins[t][j][1]).outs}
LookedAt(c, t) == {Ins[t][j][1] : j \in {k \in 1..Len(Ins[t]) : \A m \in Missing(c, t) : k <= m}}
Premature(c, t, b) == \E p \in Prevs(t) : LET k == ViewCoins(c, p)
                                          IN  k.cb /\ Height(b) - k.height < CoinbaseMaturity
Repeated(b, i) == \E k \in 1..(i - 1) : Txs(b)[k] = Txs(b)[i]

\* UpdateCoins: the inputs are spent one by one.  Undo data has the height of
\* the coins when the input takes the last output of its transaction.
Remaining(c, t, j) == ViewCoins(c, Ins[t][j][1]).outs
                      \ {Ins[t][k][2] : k \in {m \in 1..j : Ins[t][m][1] = Ins[t][j][1]}}
UndoOf(c, t) ==
    [j \in 1..Len(Ins[t]) |->
        LET k == ViewCoins(c, Ins[t][j][1])
        IN  IF Remaining(c, t, j) = {} THEN [height |-> k.height, cb |-> k.cb]
                                       ELSE [height |-> 0, cb |-> FALSE]]
UpdateCoins(c, t, b) ==
    LET spent == [p \in Prevs(t) |-> [ViewCoins(c, p) EXCEPT !.outs = @ \ SpentOf(t, p)]]
    IN  ModifyNewCoins(ModifyCoins(c, Prevs(t), spent), t, t \in Coinbase, FromTx(t, b))

\* The control waits for the checks before ConnectBlock returns, in Wait() or
\* in its destructor.
Leave(fail) ==
    /\ job' = [job EXCEPT !.at = "wait", !.fail = fail]
    /\ IF Checking(job.kind, job.block) THEN CallWait ELSE UNCHANGED queueVars

\* One round of the loop.  An early return leaves what was looked up.
ConnectTx ==
    LET b == job.block
        t == Txs(b)[job.i]
        c == FetchView(coins, LookedAt(coins, t))
    IN  /\ job.at = "txs" /\ job.i <= Len(Txs(b))
        /\ UNCHANGED <<world, tipBest, dbBest, undo, undoDisk, addrIndex>>
        /\ \/ /\ Repeated(b, job.i)
              /\ Leave(TRUE) /\ UNCHANGED coins
           \/ /\ ~Repeated(b, job.i)
              /\ Missing(coins, t) # {} \/ Premature(c, t, b)
              /\ Leave(TRUE) /\ coins' = c
           \/ /\ ~Repeated(b, job.i) /\ Missing(coins, t) = {} /\ ~Premature(c, t, b)
              /\ Add(IF Checking(job.kind, b) THEN ChecksOf(t) ELSE << >>)
              /\ coins' = UpdateCoins(c, t, b)
              /\ job' = [job EXCEPT !.i = @ + 1,
                                    !.undo = IF job.i = 1 THEN @ ELSE Append(@, UndoOf(c, t))]

\* After the loop: the reward, and control.Wait().
CloseTxs ==
    /\ job.at = "txs" /\ job.i > Len(Txs(job.block))
    /\ Leave(Txs(job.block)[1] \in Overpaying)
    /\ UNCHANGED chainVars

\* The checks are done: ConnectBlock returns.
Returning == job.at = "wait" /\ pc[Master] = "out"
Passed == ~job.fail /\ (Checking(job.kind, job.block) => verdict)

\* What ConnectBlock writes besides the view: the undo data unless the index
\* has some, and the address index.
WriteUndo(b) == undo' = IF undo[b] = NoUndo THEN [undo EXCEPT ![b] = job.undo] ELSE undo
WriteAddresses(b) == addrIndex' = IF fAddressIndex THEN addrIndex \cup {b} ELSE addrIndex
EraseAddresses(b) == addrIndex' = addrIndex \ {b}

\* FlushStateToDisk(FLUSH_STATE_IF_NEEDED) after the view is flushed.
FlushIfNeeded == job' \in {Idle, [Idle EXCEPT !.at = "write"]}

ConnectTipDone ==
    /\ Returning /\ job.kind = "connect"
    /\ \/ /\ Passed
          /\ coins' = FlushView(coins) /\ tipBest' = job.block
          /\ WriteUndo(job.block) /\ WriteAddresses(job.block)
          /\ FlushIfNeeded
       \/ /\ ~Passed
          /\ coins' = DropView(coins)
          /\ job' = Idle
          /\ UNCHANGED <<tipBest, undo, addrIndex>>
    /\ UNCHANGED <<world, dbBest, undoDisk, queueVars>>

TestBlockValidityDone ==
    /\ Returning /\ job.kind = "check"
    /\ coins' = DropView(coins) /\ job' = Idle
    /\ UNCHANGED <<world, tipBest, dbBest, undo, undoDisk, addrIndex, queueVars>>

-----------------------------------------------------------------------------
\* DisconnectBlock.  Without undo data it returns false at once.
EnterDisconnectBlock(kind, b, fail) ==
    job' = [kind |-> kind, at |-> "undo", block |-> b, undo |-> << >>,
            i |-> IF undo[b] = NoUndo THEN 0 ELSE Len(Txs(b)),
            fail |-> fail \/ undo[b] = NoUndo]

BeginDisconnect ==
    /\ job = Idle /\ tipBest # Genesis
    /\ EnterDisconnectBlock("disconnect", tipBest, FALSE)
    /\ UNCHANGED <<chainVars, queueVars>>

\* The outputs of t must be there as t made them, and are removed.  Then its
\* inputs are restored from the last to the first (ApplyTxInUndo): of those
\* that name one transaction p the last may bring back its height, when all
\* its outputs were spent, and the others add to what is there.
Inputs(t, p) == {j \in 1..Len(Ins[t]) : Ins[t][j][1] = p}
LastInput(t, p) == CHOOSE j \in Inputs(t, p) : \A k \in Inputs(t, p) : k <= j
\* Mutant of Base: the height is not brought back.
BaseAsIs(k, u) == k

Base(k, u) == IF u.height # 0 THEN [outs |-> {}, height |-> u.height, cb |-> u.cb] ELSE k
Restored(k, u, t, p) == LET r == Base(k, u[LastInput(t, p)])
                        IN  [r EXCEPT !.outs = @ \cup SpentOf(t, p)]
RestoresCleanly(k, u, t, p) ==
    LET last == LastInput(t, p)
    IN  /\ Pruned(k) <=> u[last].height # 0
        /\ \A j \in Inputs(t, p) \ {last} : u[j].height = 0
        /\ SpentOf(t, p) \cap Base(k, u[last]).outs = {}

UndoTx ==
    LET b == job.block
        t == Txs(b)[job.i]
        u == undo[b][job.i - 1]
        c == ModifyCoins(coins, {t}, [p \in {t} |-> NoCoins])
        restored == [p \in Prevs(t) |-> Restored(ViewCoins(c, p), u, t, p)]
        clean == /\ Same(ViewCoins(coins, t), FromTx(t, b))
                 /\ \A p \in Prevs(t) : RestoresCleanly(ViewCoins(c, p), u, t, p)
    IN  /\ job.at = "undo" /\ job.i > 0
        /\ coins' = ModifyCoins(c, Prevs(t), restored)
        /\ job' = [job EXCEPT !.i = @ - 1, !.fail = @ \/ ~clean]
        /\ UNCHANGED <<world, tipBest, dbBest, undo, undoDisk, addrIndex, queueVars>>

\* The end of DisconnectBlock, which erases the block from the address index
\* whoever called it.
Undone == job.at = "undo" /\ job.i = 0
DisconnectTipDone ==
    /\ Undone /\ job.kind = "disconnect"
    /\ \/ /\ ~job.fail
          /\ coins' = FlushView(coins) /\ tipBest' = Parent[job.block]
          /\ EraseAddresses(job.block)
          /\ FlushIfNeeded
       \/ /\ job.fail
          /\ coins' = DropView(coins)
          /\ job' = Idle
          /\ IF undo[job.block] = NoUndo THEN UNCHANGED addrIndex ELSE EraseAddresses(job.block)
          /\ UNCHANGED tipBest
    /\ UNCHANGED <<world, dbBest, undo, undoDisk, queueVars>>

-----------------------------------------------------------------------------
\* VerifyDB on pcoinsTip, at level 3 or 4: some blocks are disconnected in a
\* view that is never flushed, and at level 4 they are connected again.  How
\* many depends on nCheckDepth and on the memory in use.
BeginVerifyDB ==
    /\ job = Idle /\ tipBest # Genesis
    /\ EnterDisconnectBlock("verify", tipBest, FALSE)
    /\ UNCHANGED <<chainVars, queueVars>>

LeaveVerifyDB == coins' = DropView(coins) /\ job' = Idle

VerifyUndone ==
    LET b == job.block
    IN  /\ Undone /\ job.kind = "verify"
        /\ IF undo[b] = NoUndo THEN UNCHANGED addrIndex ELSE EraseAddresses(b)
        /\ \/ /\ Parent[b] # Genesis /\ undo[b] # NoUndo
              /\ EnterDisconnectBlock("verify", Parent[b], job.fail)
              /\ UNCHANGED coins
           \/ LeaveVerifyDB
           \/ /\ ~job.fail
              /\ job' = [job EXCEPT !.at = "again", !.block = Parent[b]]
              /\ UNCHANGED coins
        /\ UNCHANGED <<world, tipBest, dbBest, undo, undoDisk, queueVars>>

VerifyReconnect ==
    /\ job.at = "again"
    /\ EnterConnectBlock("verify", Path[tipBest][Height(job.block) + 1])

VerifyReconnected ==
    /\ Returning /\ job.kind = "verify"
    /\ \/ /\ Passed
          /\ WriteUndo(job.block) /\ WriteAddresses(job.block)
          /\ IF job.block = tipBest
             THEN LeaveVerifyDB
             ELSE UNCHANGED coins /\ job' = [Idle EXCEPT !.kind = "verify", !.at = "again",
                                                         !.block = job.block]
       \/ /\ ~Passed
          /\ LeaveVerifyDB
          /\ UNCHANGED <<undo, addrIndex>>
    /\ UNCHANGED <<world, tipBest, dbBest, undoDisk, queueVars>>

-----------------------------------------------------------------------------
\* Mutant of WriteIndex: before the coins the index is not written.
WriteIndexAlone ==
    /\ job.kind = "none" /\ job.at \in {"idle", "write"}
    /\ \/ job' = [Idle EXCEPT !.at = "flush"] /\ undoDisk' = undoDisk
       \/ job.at = "idle" /\ job' = Idle /\ undoDisk' = undo
    /\ UNCHANGED <<world, coins, tipBest, dbBest, undo, addrIndex, queueVars>>

\* FlushStateToDisk: the index first, with the undo positions, and the coins
\* after it or, in a periodic write, not at all.
WriteIndex ==
    /\ job.kind = "none" /\ job.at \in {"idle", "write"}
    /\ undoDisk' = undo
    /\ \/ job' = [Idle EXCEPT !.at = "flush"]
       \/ job.at = "idle" /\ job' = Idle
    /\ UNCHANGED <<world, coins, tipBest, dbBest, undo, addrIndex, queueVars>>

FlushCoins ==
    /\ job.at = "flush"
    /\ coins' = FlushTip(coins) /\ dbBest' = tipBest
    /\ job' = Idle
    /\ UNCHANGED <<world, tipBest, undo, undoDisk, addrIndex, queueVars>>

\* RPCs and AcceptToMemoryPool look coins up in pcoinsTip; a transaction that
\* is not accepted has what it looked up removed again.
LookUp(t) ==
    /\ job = Idle
    /\ coins' = FetchTip(coins, {t})
    /\ UNCHANGED <<world, tipBest, dbBest, undo, undoDisk, addrIndex, job, queueVars>>

UncacheCoins(t) ==
    /\ job = Idle
    /\ coins' = Uncache(coins, t)
    /\ UNCHANGED <<world, tipBest, dbBest, undo, undoDisk, addrIndex, job, queueVars>>

\* The process dies at any point and starts again from what is on disk.
Restart ==
    /\ coins' = Reopened(coins) /\ tipBest' = dbBest
    /\ undo' = undoDisk
    /\ job' = Idle
    /\ queue' = << >> /\ nIdle' = 0 /\ nTotal' = 0 /\ nTodo' = 0 /\ fAllOk' = TRUE
    /\ pc' = [t \in Threads |-> IF t = Master THEN "out" ELSE "start"]
    /\ batch' = [t \in Threads |-> {}] /\ fOk' = [t \in Threads |-> TRUE]
    /\ verdict' = TRUE
    /\ UNCHANGED <<world, dbBest, undoDisk, addrIndex>>

ThreadNext == \E t \in Threads : QueueStep(t) /\ UNCHANGED <<chainVars, job>>
ConnectNext ==
    \/ \E b \in Blocks, kind \in {"connect", "check"} : BeginConnect(kind, b)
    \/ ConnectTx \/ CloseTxs \/ ConnectTipDone \/ TestBlockValidityDone
DisconnectNext == BeginDisconnect \/ UndoTx \/ DisconnectTipDone
VerifyNext == BeginVerifyDB \/ VerifyUndone \/ VerifyReconnect \/ VerifyReconnected
DiskNext ==
    \/ WriteIndex \/ FlushCoins \/ Restart
    \/ \E t \in LookedUp : LookUp(t) \/ UncacheCoins(t)

Next == ThreadNext \/ ConnectNext \/ DisconnectNext \/ VerifyNext \/ DiskNext

\* The scheduler runs some thread as long as one can run: one of the queue
\* that does not wait, or the one that holds cs_main.  Nothing has to wake a
\* waiting thread but a notification.
MainStep == \/ ConnectTx \/ CloseTxs \/ ConnectTipDone \/ TestBlockValidityDone
            \/ UndoTx \/ DisconnectTipDone \/ VerifyUndone \/ VerifyReconnect \/ VerifyReconnected
QueueThreads == UNCHANGED <<chainVars, job>> /\ \E t \in Threads : ThreadStep(t)
Fairness == WF_vars(QueueThreads \/ MainStep)

Spec == Init /\ [][Next]_vars /\ Fairness

-----------------------------------------------------------------------------
Coins == [outs : SUBSET (UNION {Outs[t] : t \in Txids}), height : Nat, cb : BOOLEAN]
Entries == [in : BOOLEAN, coins : Coins, dirty : BOOLEAN, fresh : BOOLEAN]

\* Types: the layers hold coins and entries, the counters of the queue are
\* numbers within the number of threads, and batches are parts of the checks.
TypeOK ==
    /\ world \in Worlds
    /\ coins.db \in [Txids -> Coins]
    /\ coins.tip \in [Txids -> Entries] /\ coins.view \in [Txids -> Entries]
    /\ tipBest \in Blocks /\ dbBest \in Blocks
    /\ addrIndex \subseteq Blocks
    /\ queue \in Seq(Checks) /\ \A t \in Threads : batch[t] \subseteq Checks
    /\ nIdle \in 0..nTotal /\ nTotal \in 0..Cardinality(Threads)
    /\ nTodo \in Nat /\ fAllOk \in BOOLEAN /\ verdict \in BOOLEAN
    /\ pc \in [Threads -> {"out", "start", "wait", "woken", "work"}]
    /\ fOk \in [Threads -> BOOLEAN]
    /\ job.kind \in {"none", "connect", "check", "disconnect", "verify"}
    /\ job.at \in {"idle", "txs", "wait", "undo", "again", "write", "flush"}
    /\ job.block \in Blocks /\ job.i \in Nat /\ job.fail \in BOOLEAN

\* The flags of the cached entries keep their promises in pcoinsTip and in the
\* view of a block that is being connected or disconnected: an entry that is
\* not DIRTY repeats its base, and a FRESH one has nothing to erase there.
\* BatchWrite drops entries for these reasons only, so every lost or revived
\* output of a flush begins with an entry that breaks this.  (The view of
\* VerifyDB may break it, and is never flushed.)
FlagsSound == TipSound(coins) /\ (job.kind # "verify" => ViewSound(coins))

\* The checks that ConnectBlock has handed to the queue so far.
Added == UNION {{t} \X (1..Len(Ins[t])) : t \in {Txs(job.block)[k] : k \in 1..(job.i - 1)}}

\* When the control of ConnectBlock has waited, what Wait() returned says
\* whether every check that was added passed, whichever threads ran them and
\* however the master's Add calls fell between theirs; and none of them is
\* still queued or running.
WaitIsExact ==
    Returning /\ job.i > 1 /\ Checking(job.kind, job.block) =>
        (verdict <=> Added \subseteq Good) /\ Pending = {}

\* The assertion of CCheckQueueControl: between two blocks the queue is idle,
\* with every counter back where it started, also after a block whose
\* ConnectBlock returned early with checks on their way.
QueueIdleOutside == job.at \notin {"txs", "wait"} => IsIdle

\* ConnectBlock accepts a block exactly when it is valid on its parent's chain
\* by the definition of BlockContent, for a new tip and for a dry run (which
\* runs the scripts of a checkpointed block as well), from any content of the
\* caches, and after any number of reorganisations and restarts.
VerdictIsExact ==
    /\ Returning /\ job.kind = "connect" => (Passed <=> Valid[world][job.block])
    /\ Returning /\ job.kind = "check" =>
          (Passed <=> Valid[world][job.block] /\ ScriptsAgree(world, job.block))

\* The tip can always be disconnected: its undo data is there, also after a
\* restart that lost the index written last, and puts the coins back without
\* one of the inconsistencies that make DisconnectBlock fail.
DisconnectsCleanly == job.kind = "disconnect" => ~job.fail

\* VerifyDB finds nothing to complain about in coins that the node itself has
\* written: blocks disconnect cleanly in its view and connect again.
VerifyFindsNothing == job.kind = "verify" => ~job.fail /\ (Returning => Passed)

\* Whatever the thread that holds cs_main has begun comes to its end: the
\* master is not left waiting for checks, whatever wakes whom.
ConnectEnds == job.kind # "none" ~> job.kind = "none"

\* The coins are those of the UtxoLedger: in pcoinsTip and what lies under it
\* the unspent outputs of the active chain, in the database those of a chain
\* that was active, moved only by valid blocks, block by block.
Plain(k) == IF Pruned(k) THEN NoCoins ELSE k
Ledger == INSTANCE UtxoLedger WITH
    best <- tipBest, utxo <- [t \in Txids |-> Plain(TipCoins(coins, t))],
    saved <- dbBest, savedUtxo <- [t \in Txids |-> Plain(coins.db[t])]
ImplementsUtxoLedger == Ledger!Spec

\* VerifyDB disconnects the tip blocks in memory only, as its comment says
\* (src/src/main.cpp:5312): no step of it changes the address index on disk.
VerifyInMemoryOnly == [][job.kind = "verify" => UNCHANGED addrIndex]_vars
=============================================================================

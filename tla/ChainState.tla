----------------------------- MODULE ChainState -----------------------------
(***************************************************************************)
(* The choice of the active chain (main.cpp): the block index and its      *)
(* flags, setBlockIndexCandidates, ActivateBestChain with the points where *)
(* it lets go of cs_main, invalidateblock and reconsiderblock, the writing *)
(* of the index and of the coins to disk, and a restart from what is there.*)
(*                                                                         *)
(* A block's content is abstracted to whether CheckBlock refuses it        *)
(* (Malformed) and whether ConnectBlock does (Invalid), which in one case  *)
(* returns without saying why (Unmarked).  `ix` holds the part of the      *)
(* index entries that the database keeps, one set of blocks per flag.  Its *)
(* field `indexed` says which entries carry their sigma mints and serials: *)
(* ConnectBlock fills them in, DisconnectTip empties them, and CSigmaState *)
(* holds those of the active chain's entries.                              *)
(***************************************************************************)
EXTENDS BlockTree, FiniteSets

CONSTANTS
    ChainWork,          \* CBlockIndex::nChainWork
    Invalid, Unmarked, Malformed,
    Threads,            \* threads that deliver blocks or run the two RPCs
    NoBlock,            \* a null CBlockIndex pointer
    Addrs,              \* the ranks that the addresses of the entries may give
    Doubted,            \* the blocks named in a call of invalidateblock
    Reconsidered,       \* and of reconsiderblock
    AboveFailed,        \* bound: whether such a block may build on a failed one
    Flushes,            \* what a call of FlushStateToDisk may decide to do
    MaxRpcs, MaxRestarts

ASSUME WorkAssumption ==
    /\ ChainWork \in [Blocks -> Nat]
    /\ \A b \in Blocks \ {Genesis} : ChainWork[Parent[b]] < ChainWork[b]
    /\ Invalid \subseteq Blocks \ {Genesis}
    /\ Unmarked \subseteq Blocks \ {Genesis} /\ Unmarked \cap Invalid = {}
    /\ Malformed \subseteq Blocks \ {Genesis}
    /\ NoBlock \notin Blocks
    /\ Addrs \subseteq [Blocks -> Int]
    /\ \A a \in Addrs : \A b, c \in Blocks : a[b] <= 0 /\ (a[b] = a[c] => b = c)
    /\ Flushes \subseteq {"none", "index", "full"}
    /\ AboveFailed \in BOOLEAN /\ MaxRpcs \in Nat /\ MaxRestarts \in Nat

VARIABLES
    tip,                \* chainActive.Tip()
    ix, dirty,          \* mapBlockIndex; setDirtyBlockIndex
    linked,             \* the entries with nChainTx # 0
    unlinked,           \* mapBlocksUnlinked, by its second components
    rank, nextSeq,      \* nSequenceId, then address; nBlockSequenceId
    candidates,         \* setBlockIndexCandidates
    disk,               \* the block index database and the coins' best block
    pc, target,         \* where a thread is; its pindexMostWork
    oldTip,             \* pindexOldTip of the thread that holds cs_main
    halted,             \* an assertion of PruneBlockIndexCandidates has failed
    rpcs, restarts      \* how many there have been (bounds)

index == <<ix, dirty, linked, unlinked, rank, nextSeq>>
counts == <<rpcs, restarts>>
vars == <<tip, index, candidates, disk, pc, target, oldTip, halted, counts>>

Fields == {"known", "data", "scripts", "failedValid", "failedChild", "indexed"}
Failed(i) == i["failedValid"] \cup i["failedChild"]

-----------------------------------------------------------------------------
\* CBlockIndexWorkComparator: less work, then received later.  The entries read
\* from disk all have the number 0 and are ordered by their addresses, so their
\* ranks are numbers up to 0.
Worse(r, b, c) ==
    \/ ChainWork[b] < ChainWork[c]
    \/ ChainWork[b] = ChainWork[c] /\ r[b] > r[c]
Best(C) == CHOOSE b \in C : \A c \in C : ~Worse(rank, b, c)

\* FlushStateToDisk: "index" writes the dirty entries, "full" writes them and
\* then the coins, whose best block is b.
Written(mode, i, d, b) ==
    [ix  |-> [f \in Fields |-> (disk.ix[f] \ d) \cup (i[f] \cap d)],
     tip |-> IF mode = "full" THEN b ELSE disk.tip]
FlushStateToDisk(mode, i, d, b) ==
    IF mode = "none" THEN dirty' = d /\ UNCHANGED disk
                     ELSE dirty' = {} /\ disk' = Written(mode, i, d, b)

-----------------------------------------------------------------------------
\* cs_main is held from the moment a thread starts to look for the best
\* chain until its step is over, and all through invalidateblock.
HoldsMain(t) == pc[t] \in {"find", "step", "inval"}
MainFree == \A t \in Threads : ~HoldsMain(t)
Goto(t, p) == pc' = [pc EXCEPT ![t] = p]

\* AcceptBlockHeader and AddToBlockIndex take b to be a known block.
HeaderOk(b) == IF b \in ix["known"] THEN b \notin Failed(ix)
               ELSE Parent[b] \in ix["known"] \ Failed(ix)
Learn(b) == [ix EXCEPT !["known"] = @ \cup {b}]
NewDirty(b) == IF b \in ix["known"] THEN dirty ELSE dirty \cup {b}

AcceptBlockHeader(b) ==
    /\ MainFree /\ b \notin ix["known"] /\ HeaderOk(b)
    /\ ix' = Learn(b) /\ dirty' = NewDirty(b)
    /\ UNCHANGED <<tip, linked, unlinked, rank, nextSeq, candidates, disk,
                   pc, target, oldTip, halted, counts>>

\* A block reaches ProcessNewBlock: it looks at heights, then AcceptBlock at
\* the header.
Delivered(t, b) ==
    /\ pc[t] = "idle" /\ MainFree
    /\ Height(b) <= Height(tip) + 1
    /\ HeaderOk(b)

\* The block is there already, or is unrequested and has no more work than
\* the tip; ActivateBestChain follows all the same.
ProcessOldBlock(t, b) ==
    /\ Delivered(t, b)
    /\ b \in ix["data"] \/ ChainWork[b] <= ChainWork[tip]
    /\ ix' = Learn(b) /\ dirty' = NewDirty(b)
    /\ Goto(t, "loop")
    /\ UNCHANGED <<tip, linked, unlinked, rank, nextSeq, candidates, disk,
                   target, oldTip, halted, counts>>

\* CheckBlock or ContextualCheckBlock refuses the block.
ProcessBadBlock(t, b) ==
    /\ Delivered(t, b) /\ b \notin ix["data"] /\ b \in Malformed
    /\ ix' = [Learn(b) EXCEPT !["failedValid"] = @ \cup {b}]
    /\ dirty' = dirty \cup {b}
    /\ UNCHANGED <<tip, linked, unlinked, rank, nextSeq, candidates, disk,
                   pc, target, oldTip, halted, counts>>

\* Mutant of NewlyLinked: the blocks that wait for b are not visited.
NewlyLinkedAlone(b) == {b}

\* The entries that get their nChainTx when b's data arrives: b and what
\* hangs below it in mapBlocksUnlinked.
NewlyLinked(b) == {b} \cup {c \in unlinked : b \in Below(c) /\ Below(c) \ Below(b) \subseteq unlinked}

\* The sequence numbers the queue gives them, in order of height.
Numberings(L) == {f \in [L -> nextSeq..(nextSeq + Cardinality(L) - 1)] :
                     \A c, d \in L : f[c] <= f[d] => Height(c) <= Height(d) /\ (f[c] = f[d] => c = d)}

\* Mutants of Competing: every block linked becomes a candidate; only the one
\* that has arrived does.
AllLinked(s, L) == L
LowestLinked(s, L) == {c \in L : ~Worse(s, c, tip) /\ Parent[c] \notin L}

\* Of the entries linked, those that become candidates.
Competing(s, L) == {c \in L : ~Worse(s, c, tip)}

ReceivedBlockTransactions(b) ==
    IF Parent[b] \in linked
    THEN LET L == NewlyLinked(b) IN
         \E f \in Numberings(L) :
            LET s == [c \in Blocks |-> IF c \in L THEN f[c] ELSE rank[c]] IN
            /\ rank' = s
            /\ linked' = linked \cup L /\ unlinked' = unlinked \ L
            /\ nextSeq' = nextSeq + Cardinality(L)
            /\ candidates' = candidates \cup Competing(s, L)
    ELSE /\ unlinked' = IF Parent[b] \in Failed(ix) THEN unlinked ELSE unlinked \cup {b}
         /\ UNCHANGED <<linked, rank, nextSeq, candidates>>

ProcessNewBlock(t, b) ==
    /\ Delivered(t, b) /\ b \notin ix["data"] /\ b \notin Malformed
    /\ ix' = [Learn(b) EXCEPT !["data"] = @ \cup {b}]
    /\ dirty' = dirty \cup {b}
    /\ ReceivedBlockTransactions(b)
    /\ Goto(t, "loop")
    /\ UNCHANGED <<tip, disk, target, oldTip, halted, counts>>

-----------------------------------------------------------------------------
\* Mutant of Suspects: only the candidate itself is looked at.
SuspectsAtEnd(c) == {c} \cap Failed(ix)

\* FindMostWorkChain meets a failed block between the active chain and the
\* best candidate: what is above it is marked, and all of it is erased.
Suspects(c) == (Chain(c) \ Chain(tip)) \cap Failed(ix)
AtLoop(t) == pc[t] = "find" \/ (pc[t] = "loop" /\ MainFree)

EraseFailedChain(t) ==
    /\ AtLoop(t) /\ target[t] = NoBlock /\ candidates # {}
    /\ LET c == Best(candidates)
           f == Highest(Suspects(c))
           above == Chain(c) \ Chain(f)
       IN  /\ Suspects(c) # {}
           /\ ix' = [ix EXCEPT !["failedChild"] = @ \cup above]
           /\ candidates' = candidates \ (above \cup {f})
    /\ Goto(t, "find")
    /\ UNCHANGED <<tip, dirty, linked, unlinked, rank, nextSeq, disk,
                   target, oldTip, halted, counts>>

\* One round of ActivateBestChain begins: it keeps the target it had or takes
\* the best candidate, and returns when there is nothing to do.
MostWork(t) == IF target[t] # NoBlock THEN target[t]
               ELSE IF candidates = {} THEN NoBlock ELSE Best(candidates)

ActivateBestChain(t) ==
    /\ AtLoop(t)
    /\ target[t] = NoBlock /\ candidates # {} => Suspects(Best(candidates)) = {}
    /\ LET most == MostWork(t) IN
       IF most \in {NoBlock, tip}
       THEN /\ Goto(t, "idle") /\ target' = [target EXCEPT ![t] = NoBlock]
            /\ UNCHANGED oldTip
       ELSE /\ Goto(t, "step") /\ target' = [target EXCEPT ![t] = most]
            /\ oldTip' = tip
    /\ UNCHANGED <<tip, index, candidates, disk, halted, counts>>

\* Mutant of DisconnectTip: the tip is forgotten instead of moved to pprev.
DisconnectToNull(mode, i, d) ==
    /\ tip' = NoBlock
    /\ ix' = [i EXCEPT !["indexed"] = @ \ {tip}]
    /\ FlushStateToDisk(mode, ix', d, tip')

\* DisconnectTip: the entry of the old tip loses its mints and serials.
DisconnectTip(mode, i, d) ==
    /\ tip' = Parent[tip]
    /\ ix' = [i EXCEPT !["indexed"] = @ \ {tip}]
    /\ FlushStateToDisk(mode, ix', d, tip')

\* ActivateBestChainStep, while the tip is not on the target's chain.
DisconnectStep(t, mode) ==
    /\ pc[t] = "step" /\ tip \notin Chain(target[t])
    /\ DisconnectTip(mode, ix, dirty)
    /\ UNCHANGED <<linked, unlinked, rank, nextSeq, candidates,
                   pc, target, oldTip, halted, counts>>

\* The next block towards the target.
NextBlock(t) == Path[target[t]][Height(tip) + 1]
CanConnect(t) == pc[t] = "step" /\ tip # target[t] /\ tip \in Chain(target[t])

\* Mutant of PruneBlockIndexCandidates: the tip goes as well.
PruneUpToTip(r, C, b) ==
    /\ candidates' = {c \in C : Worse(r, b, c)}
    /\ halted' = (candidates' = {})

\* PruneBlockIndexCandidates, with its assertion.
PruneBlockIndexCandidates(r, C, b) ==
    /\ candidates' = {c \in C : ~Worse(r, c, b)}
    /\ halted' = (candidates' = {})

\* Mutants of the two that follow: a connected entry is not marked as changed;
\* only the target's entry is raised to BLOCK_VALID_SCRIPTS.
DirtyUnchanged(b) == dirty
RaisedAtTarget(t, b) == IF b = target[t] THEN ix["scripts"] \cup {b} ELSE ix["scripts"]

\* The end of ConnectBlock: the entry is marked as changed when it was not
\* VALID_SCRIPTS before (or has no undo data, which comes to the same), and
\* RaiseValidity leaves a failed entry alone.
DirtyWhenConnected(b) ==
    IF b \in ix["scripts"] \ Failed(ix) THEN dirty ELSE dirty \cup {b}
Raised(t, b) == IF b \in Failed(ix) THEN ix["scripts"] ELSE ix["scripts"] \cup {b}

\* ConnectTip succeeds.  The step is over at the target, or as soon as the tip
\* beats the one it began with.
ConnectStep(t, mode) ==
    /\ CanConnect(t) /\ NextBlock(t) \notin Invalid \cup Unmarked
    /\ LET b == NextBlock(t) IN
       /\ tip' = b
       /\ ix' = [ix EXCEPT !["indexed"] = @ \cup {b}, !["scripts"] = Raised(t, b)]
       /\ FlushStateToDisk(mode, ix', DirtyWhenConnected(b), b)
       /\ PruneBlockIndexCandidates(rank, candidates, b)
       /\ Goto(t, IF b = target[t] THEN "end"
                  ELSE IF ChainWork[b] > ChainWork[oldTip] THEN "loop" ELSE "step")
    /\ UNCHANGED <<linked, unlinked, rank, nextSeq, target, oldTip, counts>>

\* Mutant of RefuseStep: the block is not marked and stays a candidate.
RefuseWithoutMark(t) ==
    /\ CanConnect(t) /\ NextBlock(t) \in Invalid
    /\ target' = [target EXCEPT ![t] = NoBlock]
    /\ Goto(t, "loop")
    /\ UNCHANGED <<tip, index, candidates, disk, oldTip, halted, counts>>

\* ConnectBlock refuses the block: InvalidBlockFound, and the target is wiped.
RefuseStep(t) ==
    /\ CanConnect(t) /\ NextBlock(t) \in Invalid
    /\ LET b == NextBlock(t) IN
       /\ ix' = [ix EXCEPT !["failedValid"] = @ \cup {b}]
       /\ dirty' = dirty \cup {b}
       /\ candidates' = candidates \ {b}
    /\ target' = [target EXCEPT ![t] = NoBlock]
    /\ Goto(t, "loop")
    /\ UNCHANGED <<tip, linked, unlinked, rank, nextSeq, disk, oldTip, halted, counts>>

\* ConnectBlock returns false and leaves the state valid, as it does for a
\* zerocoin mint: ActivateBestChain returns where it is, and the block is not
\* marked and stays a candidate.
AbandonStep(t) ==
    /\ CanConnect(t) /\ NextBlock(t) \in Unmarked
    /\ target' = [target EXCEPT ![t] = NoBlock]
    /\ Goto(t, "idle")
    /\ UNCHANGED <<tip, index, candidates, disk, oldTip, halted, counts>>

\* The target was an ancestor of the old tip: there is nothing to connect.
ReachStep(t) ==
    /\ pc[t] = "step" /\ tip = target[t]
    /\ Goto(t, "end")
    /\ UNCHANGED <<tip, index, candidates, disk, target, oldTip, halted, counts>>

\* ActivateBestChain ends with a periodic write.
Finish(t, mode) ==
    /\ pc[t] = "end" /\ MainFree
    /\ FlushStateToDisk(mode, ix, dirty, tip)
    /\ target' = [target EXCEPT ![t] = NoBlock]
    /\ Goto(t, "idle")
    /\ UNCHANGED <<tip, ix, linked, unlinked, rank, nextSeq, candidates,
                   oldTip, halted, counts>>

\* Another thread writes: after a transaction has arrived, or for an RPC that
\* looks at all coins.
FlushElsewhere(mode) ==
    /\ MainFree /\ mode # "none"
    /\ FlushStateToDisk(mode, ix, dirty, tip)
    /\ UNCHANGED <<tip, ix, linked, unlinked, rank, nextSeq, candidates, pc, target,
                   oldTip, halted, counts>>

-----------------------------------------------------------------------------
\* The RPC invalidateblock, for a block other than the genesis block.
InvalidateBlock(t, b) ==
    /\ pc[t] = "idle" /\ MainFree /\ rpcs < MaxRpcs
    /\ b \in (ix["known"] \cap Doubted) \ {Genesis}
    /\ ix' = [ix EXCEPT !["failedValid"] = @ \cup {b}]
    /\ dirty' = dirty \cup {b}
    /\ candidates' = candidates \ {b}
    /\ target' = [target EXCEPT ![t] = b]
    /\ Goto(t, "inval") /\ rpcs' = rpcs + 1
    /\ UNCHANGED <<tip, linked, unlinked, rank, nextSeq, disk, oldTip, halted, restarts>>

InvalidateStep(t, mode) ==
    /\ pc[t] = "inval" /\ target[t] \in Chain(tip)
    /\ candidates' = candidates \ {tip}
    /\ DisconnectTip(mode, [ix EXCEPT !["failedChild"] = @ \cup {tip}], dirty \cup {tip})
    /\ UNCHANGED <<linked, unlinked, rank, nextSeq, pc, target, oldTip, halted, counts>>

\* Mutant of the loop that follows: the new tip alone becomes a candidate.
TipAlone == {tip}

\* The blocks that InvalidateBlock makes candidates again.
Reinstated == {c \in (ix["data"] \cap linked) \ Failed(ix) : ~Worse(rank, c, tip)}

InvalidateEnd(t) ==
    /\ pc[t] = "inval" /\ target[t] \notin Chain(tip)
    /\ candidates' = candidates \cup Reinstated
    /\ target' = [target EXCEPT ![t] = NoBlock]
    /\ Goto(t, "loop")
    /\ UNCHANGED <<tip, index, disk, oldTip, halted, counts>>

\* Mutant of DescendantsOf: the block alone is reset.
ItselfAlone(b) == {b}

\* The entries whose GetAncestor(nHeight) is b.
DescendantsOf(b) == {c \in ix["known"] : b \in Chain(c)}

\* The RPC reconsiderblock: ResetBlockFailureFlags.
ResetBlockFailureFlags(t, b) ==
    /\ pc[t] = "idle" /\ MainFree /\ rpcs < MaxRpcs
    /\ b \in ix["known"] \cap Reconsidered
    /\ AboveFailed \/ Chain(Parent[b]) \cap Failed(ix) = {}
    /\ LET below == {c \in DescendantsOf(b) : c \in Failed(ix) \/ c \notin ix["data"]}
           reset == below \cup (Chain(b) \cap Failed(ix))
       IN  /\ ix' = [ix EXCEPT !["failedValid"] = @ \ reset, !["failedChild"] = @ \ reset]
           /\ dirty' = dirty \cup reset
           /\ candidates' = candidates \cup
                 {c \in below \cap ix["data"] \cap linked : Worse(rank, tip, c)}
    /\ Goto(t, "loop") /\ rpcs' = rpcs + 1
    /\ UNCHANGED <<tip, linked, unlinked, rank, nextSeq, disk, target, oldTip,
                   halted, restarts>>

-----------------------------------------------------------------------------
\* The process ends at any point, possibly in the middle of a flush that has
\* written the index and not yet the coins.  LoadBlockIndexDB computes nChainTx,
\* the unlinked blocks and the candidates from the entries it reads, and makes
\* the coins' best block the tip; ThreadImport then calls ActivateBestChain.
Flushing == MainFree \/ \E t \in Threads : pc[t] \in {"step", "inval"}

DiskRead(torn) == IF torn THEN Written("index", ix, dirty, tip) ELSE disk
Linked(i) == {b \in i["data"] : Chain(b) \subseteq i["data"]}

\* Mutants of the two that follow: what waits for a parent is not collected;
\* only the chain on disk is considered, and without the genesis block.
NoneWaiting(i) == {}
OnlyTheTip(d) == {d.tip}
WithoutGenesis(d) == (Linked(d.ix) \ Failed(d.ix)) \ {Genesis}

Waiting(i) == i["data"] \ Linked(i)
LoadedCandidates(d) == Linked(d.ix) \ Failed(d.ix)

Restart(torn, t, a) ==
    /\ restarts < MaxRestarts
    /\ torn => Flushing
    /\ LET d == DiskRead(torn) IN
       /\ disk' = d /\ ix' = d.ix /\ tip' = d.tip
       /\ linked' = Linked(d.ix) /\ unlinked' = Waiting(d.ix)
       /\ PruneBlockIndexCandidates(a, LoadedCandidates(d), d.tip)
    /\ dirty' = {} /\ rank' = a /\ nextSeq' = 1
    /\ pc' = [u \in Threads |-> IF u = t THEN "loop" ELSE "idle"]
    /\ target' = [u \in Threads |-> NoBlock]
    /\ restarts' = restarts + 1
    /\ UNCHANGED <<oldTip, rpcs>>

-----------------------------------------------------------------------------
\* InitBlockIndex has stored the genesis block, the first ActivateBestChain has
\* connected it, and the coins have been flushed.
Init ==
    /\ tip = Genesis
    /\ ix = [f \in Fields |-> IF f \in {"known", "data"} THEN {Genesis} ELSE {}]
    /\ dirty = {} /\ disk = [ix |-> ix, tip |-> Genesis]
    /\ linked = {Genesis} /\ unlinked = {}
    /\ rank = [b \in Blocks |-> IF b = Genesis THEN 1 ELSE 0] /\ nextSeq = 2
    /\ candidates = {Genesis}
    /\ pc = [t \in Threads |-> "idle"] /\ target = [t \in Threads |-> NoBlock]
    /\ oldTip = Genesis /\ halted = FALSE /\ rpcs = 0 /\ restarts = 0

\* The steps a thread takes on its own once it has begun.
Run(t) ==
    \/ EraseFailedChain(t) \/ ActivateBestChain(t)
    \/ \E mode \in Flushes \ {"index"} : DisconnectStep(t, mode) \/ ConnectStep(t, mode)
                                      \/ InvalidateStep(t, mode)
    \/ RefuseStep(t) \/ AbandonStep(t) \/ ReachStep(t)
    \/ \E mode \in Flushes : Finish(t, mode)
    \/ InvalidateEnd(t)

Next ==
    /\ ~halted
    /\ \/ \E b \in Blocks : AcceptBlockHeader(b)
       \/ \E t \in Threads, b \in Blocks :
             \/ ProcessOldBlock(t, b) \/ ProcessBadBlock(t, b) \/ ProcessNewBlock(t, b)
             \/ InvalidateBlock(t, b) \/ ResetBlockFailureFlags(t, b)
       \/ \E t \in Threads : Run(t)
       \/ \E mode \in Flushes : FlushElsewhere(mode)
       \/ \E torn \in BOOLEAN, t \in Threads, a \in Addrs : Restart(torn, t, a)

Spec == Init /\ [][Next]_vars

\* A thread that has begun goes on: nothing in these functions waits for
\* anything but cs_main.
FairSpec == Spec /\ \A t \in Threads : WF_vars(~halted /\ Run(t))

-----------------------------------------------------------------------------
\* The pointers and sets have the types main.cpp declares for them; the tip is
\* never null once the genesis block is connected.
TypeOK ==
    /\ tip \in Blocks /\ oldTip \in Blocks
    /\ ix \in [Fields -> SUBSET Blocks] /\ dirty \subseteq Blocks
    /\ disk \in [ix : [Fields -> SUBSET Blocks], tip : Blocks]
    /\ linked \subseteq Blocks /\ unlinked \subseteq Blocks /\ candidates \subseteq Blocks
    /\ rank \in [Blocks -> Int] /\ nextSeq \in Nat
    /\ pc \in [Threads -> {"idle", "loop", "find", "step", "end", "inval"}]
    /\ target \in [Threads -> Blocks \cup {NoBlock}]
    /\ halted \in BOOLEAN /\ rpcs \in 0..MaxRpcs /\ restarts \in 0..MaxRestarts

AllIdle == \A t \in Threads : pc[t] = "idle"

\* Where CheckBlockIndex runs: no call of ActivateBestChain is half way.
Settled == \A t \in Threads : pc[t] \in {"idle", "end"}

\* A block, or one it builds on, has BLOCK_FAILED_VALID (pindexFirstInvalid).
HasInvalid(b) == Chain(b) \cap ix["failedValid"] # {}

\* Once every call of ActivateBestChain has returned, no chain that is linked
\* and not known to be invalid beats the active one: "The result is either
\* failure or an activated best chain."
BestChainActive ==
    AllIdle => \A b \in linked : Chain(b) \cap Failed(ix) = {} => ~Worse(rank, tip, b)

\* Threads that keep their target while others activate better chains may leave
\* the active chain behind, but not for good: as long as some chain beats it,
\* setBlockIndexCandidates has one that is no worse, and FindMostWorkChain, which
\* looks nowhere else, finds it in the next call.
BetterIsCandidate ==
    AllIdle => \A b \in linked :
        Chain(b) \cap Failed(ix) = {} /\ Worse(rank, tip, b) =>
            \E c \in candidates : ~Worse(rank, c, b) /\ Chain(c) \cap Failed(ix) = {}

\* FindMostWorkChain does not look at the active chain's own blocks, "as we
\* know all blocks in it are valid already": while cs_main is free none of them
\* carries a failure flag.
ActiveChainNotFailed == MainFree => Chain(tip) \cap Failed(ix) = {}

\* PruneBlockIndexCandidates always leaves "either the current tip or a
\* successor of it we're working towards": its assertion never fails.
NoAssertFails == ~halted

\* CheckBlockIndex: the candidates are the linked blocks that do not sort worse
\* than the tip, and none of those is missing unless it builds on an invalid
\* block.
CandidatesExact ==
    Settled => \A b \in ix["known"] :
        IF b \in linked /\ ~Worse(rank, b, tip) THEN HasInvalid(b) \/ b \in candidates
                                                ELSE b \notin candidates

\* CheckBlockIndex: "The failed mask cannot be set for blocks without invalid
\* parents", in whatever order blocks are invalidated, refused and reconsidered.
\* It holds while reconsiderblock is called for blocks that build on no failed
\* one (~AboveFailed), and fails otherwise: the flags of the ancestors are
\* removed, and those of the blocks on other branches above them are not.
FailedHaveCause == Settled => \A b \in ix["failedChild"] : HasInvalid(b)

\* CheckBlockIndex: nChainTx is set exactly where the data of the whole chain
\* has arrived, in whatever order it came, and mapBlocksUnlinked holds the
\* other blocks with data unless they build on an invalid block.
LinkedExact ==
    /\ linked = {b \in ix["data"] : Chain(b) \subseteq ix["data"]}
    /\ unlinked \subseteq ix["data"] \ linked
    /\ \A b \in ix["data"] \ linked : HasInvalid(b) \/ b \in unlinked

\* CheckBlockIndex: "SCRIPTS valid implies all parents are SCRIPTS valid", also
\* for entries that were written at different times and read back.
ScriptsClosed == \A b \in ix["scripts"] : Below(b) \subseteq ix["scripts"]

\* Whenever the process ends, the coins on disk are those of a chain whose
\* entries on disk have their data and were connected, with no failed block.
DiskChainComplete ==
    /\ Chain(disk.tip) \subseteq disk.ix["data"] \ Failed(disk.ix)
    /\ Below(disk.tip) \subseteq disk.ix["scripts"]

\* The entries of the active chain carry their sigma mints and serials ("to
\* ensure zerocoin mint/spend transactions got their info stored into index"):
\* CSigmaState, which is built from them, holds every coin of the chain.
SigmaFollowsChain == Below(tip) \subseteq ix["indexed"]

\* A thread that entered ActivateBestChain or invalidateblock comes out of it:
\* the loop of ActivateBestChain does not go round forever.
ActivationEnds == \A t \in Threads : pc[t] # "idle" ~> (pc[t] = "idle" \/ halted)
=============================================================================

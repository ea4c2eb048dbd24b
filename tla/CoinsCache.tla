----------------------------- MODULE CoinsCache -----------------------------
(***************************************************************************)
(* The layered views of the unspent outputs (coins.h, coins.cpp, txdb.cpp):*)
(* the coins database, the cache pcoinsTip over it, and a CCoinsViewCache  *)
(* over pcoinsTip in which a block is connected or disconnected.           *)
(*                                                                         *)
(* A CCoins is a record [outs, height, cb]: the indices of the outputs that*)
(* are not null, nHeight and fCoinBase.  The layers are one record c with  *)
(* the fields db, a CCoins for each transaction, and tip and view, a cache *)
(* entry for each transaction.  A method of a view is an operator from the *)
(* layers before the call to the layers after it; one that the code calls  *)
(* in a loop over different transactions takes the set S of them.          *)
(***************************************************************************)
EXTENDS BlockContent

NoCoins == [outs |-> {}, height |-> 0, cb |-> FALSE]
Pruned(k) == k.outs = {}

\* operator== of CCoins: what is left of a pruned one does not matter.
Same(k, l) == (Pruned(k) /\ Pruned(l)) \/ k = l

\* CCoinsCacheEntry; `in` says that the map has an entry for the key.
Entry(k, d, f) == [in |-> TRUE, coins |-> k, dirty |-> d, fresh |-> f]
Absent == [in |-> FALSE, coins |-> NoCoins, dirty |-> FALSE, fresh |-> FALSE]
EmptyCache == [t \in Txids |-> Absent]

\* What a lookup finds in pcoinsTip and in the view on top of it.
TipCoins(c, t) == IF c.tip[t].in THEN c.tip[t].coins ELSE c.db[t]
ViewCoins(c, t) == IF c.view[t].in THEN c.view[t].coins ELSE TipCoins(c, t)

-----------------------------------------------------------------------------
\* FetchCoins of pcoinsTip.  The database holds no pruned entries.
TipFetched(c, S) ==
    [t \in Txids |-> IF t \in S /\ ~c.tip[t].in /\ ~Pruned(c.db[t])
                     THEN Entry(c.db[t], FALSE, FALSE) ELSE c.tip[t]]
FetchTip(c, S) == [c EXCEPT !.tip = TipFetched(c, S)]

\* FetchCoins of the view: its base is pcoinsTip, which fetches first.  A
\* pruned entry of the base is fresh in the view.
FetchView(c, S) ==
    LET miss == {t \in S : ~c.view[t].in}
        tip  == TipFetched(c, miss)
    IN  [c EXCEPT !.tip = tip,
                  !.view = [t \in Txids |->
                      IF t \in miss /\ tip[t].in
                      THEN Entry(tip[t].coins, FALSE, Pruned(tip[t].coins))
                      ELSE c.view[t]]]

\* The end of the life of a CCoinsModifier.
Modified(e) == IF e.fresh /\ Pruned(e.coins) THEN Absent ELSE e

\* Mutant of ModifyCoins: what was not cached is taken to be fresh.
ModifyAsFresh(c, S, new) ==
    LET miss == {t \in S : ~c.view[t].in}
        fresh(t) == IF c.view[t].in THEN c.view[t].fresh ELSE TRUE
    IN  [c EXCEPT !.tip = TipFetched(c, miss),
                  !.view = [t \in Txids |->
                      IF t \in S THEN Modified(Entry(new[t], TRUE, fresh(t)))
                                 ELSE c.view[t]]]

\* ModifyCoins of the view, by which the coins of each t \in S become new[t].
ModifyCoins(c, S, new) ==
    LET miss == {t \in S : ~c.view[t].in}
        fresh(t) == IF c.view[t].in THEN c.view[t].fresh ELSE Pruned(TipCoins(c, t))
    IN  [c EXCEPT !.tip = TipFetched(c, miss),
                  !.view = [t \in Txids |->
                      IF t \in S THEN Modified(Entry(new[t], TRUE, fresh(t)))
                                 ELSE c.view[t]]]

\* ModifyNewCoins of the view.  It does not look into the base, and takes an
\* entry to be fresh unless it is a coinbase's.
ModifyNewCoins(c, t, coinbase, new) ==
    [c EXCEPT !.view[t] = Modified(Entry(new, TRUE, ~coinbase \/ c.view[t].fresh))]

-----------------------------------------------------------------------------
\* Mutant of Written: every pruned entry goes, not only the fresh ones.
WrittenUnpruned(u, v) ==
    CASE ~v.dirty -> u
      [] v.dirty /\ ~u.in ->
            IF v.fresh /\ Pruned(v.coins) THEN Absent ELSE Entry(v.coins, TRUE, v.fresh)
      [] v.dirty /\ u.in ->
            IF Pruned(v.coins) THEN Absent ELSE Entry(v.coins, TRUE, u.fresh)

\* BatchWrite of pcoinsTip: what becomes of its entry u when the view has v.
Written(u, v) ==
    CASE ~v.dirty -> u
      [] v.dirty /\ ~u.in ->
            IF v.fresh /\ Pruned(v.coins) THEN Absent ELSE Entry(v.coins, TRUE, v.fresh)
      [] v.dirty /\ u.in ->
            IF u.fresh /\ Pruned(v.coins) THEN Absent ELSE Entry(v.coins, TRUE, u.fresh)

\* view.Flush(), and a view that is dropped without it.
FlushView(c) == [c EXCEPT !.tip = [t \in Txids |-> Written(c.tip[t], c.view[t])],
                          !.view = EmptyCache]
DropView(c) == [c EXCEPT !.view = EmptyCache]

\* pcoinsTip->Flush(): CCoinsViewDB::BatchWrite is one atomic batch.
FlushTip(c) ==
    [c EXCEPT !.db = [t \in Txids |-> IF ~c.tip[t].dirty THEN c.db[t]
                                      ELSE IF Pruned(c.tip[t].coins) THEN NoCoins
                                      ELSE c.tip[t].coins],
              !.tip = EmptyCache]

\* pcoinsTip->Uncache(t).
Uncache(c, t) == IF c.tip[t].in /\ ~c.tip[t].dirty /\ ~c.tip[t].fresh
                 THEN [c EXCEPT !.tip[t] = Absent] ELSE c

\* The process dies: what is left is the database.
Reopened(c) == [db |-> c.db, tip |-> EmptyCache, view |-> EmptyCache]

-----------------------------------------------------------------------------
\* What the flags promise.  An entry that is not dirty repeats its base, and a
\* fresh one has nothing to erase in its base: on these two rests every entry
\* that a flush leaves out.
EntrySound(e, base) ==
    /\ e.in /\ ~e.dirty => Same(e.coins, base)
    /\ e.fresh => Pruned(base)
TipSound(c) == \A t \in Txids : EntrySound(c.tip[t], c.db[t])
ViewSound(c) == \A t \in Txids : EntrySound(c.view[t], TipCoins(c, t))
=============================================================================

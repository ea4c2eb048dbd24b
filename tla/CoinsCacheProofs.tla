-------------------------- MODULE CoinsCacheProofs --------------------------
(***************************************************************************)
(* What the operations of the cache do to what a lookup finds, and that    *)
(* they keep the promises of the flags.                                    *)
(***************************************************************************)
EXTENDS CoinsCache, TLAPS

\* The layers as records of functions, whose entries have flags; where there
\* is no entry there is Absent.
Cached(e) ==
    /\ e.in \in BOOLEAN /\ e.dirty \in BOOLEAN /\ e.fresh \in BOOLEAN
    /\ ~e.in => e = Absent
Layers(c) ==
    /\ c = [db |-> c.db, tip |-> c.tip, view |-> c.view]
    /\ c.tip = [t \in Txids |-> c.tip[t]] /\ \A t \in Txids : Cached(c.tip[t])
    /\ c.view = [t \in Txids |-> c.view[t]] /\ \A t \in Txids : Cached(c.view[t])

\* Lookups find the same in c and d, in pcoinsTip and below.
SameTip(c, d) == d.db = c.db /\ \A t \in Txids : TipCoins(d, t) = TipCoins(c, t)

\* An entry that repeats its base, and one that is dirty.
LEMMA CleanSound ==
  ASSUME NEW base
  PROVE  EntrySound(Entry(base, FALSE, FALSE), base) /\ EntrySound(Entry(base, FALSE, Pruned(base)), base)
<1>1. EntrySound(Entry(base, FALSE, FALSE), base)
  BY DEF Entry, EntrySound, Same
<1>2. EntrySound(Entry(base, FALSE, Pruned(base)), base)
  BY DEF Entry, EntrySound, Same, Pruned
<1> QED BY <1>1, <1>2

LEMMA DirtySound ==
  ASSUME NEW base, NEW k, NEW f \in BOOLEAN, f => Pruned(base)
  PROVE  EntrySound(Entry(k, TRUE, f), base)
  BY DEF Entry, EntrySound

LEMMA CachedForms ==
  Cached(Absent) /\ \A k : \A d, f \in BOOLEAN : Cached(Entry(k, d, f))
  BY DEF Cached, Absent, Entry

LEMMA AbsentSound == \A base : EntrySound(Absent, base)
  BY DEF EntrySound, Absent

LEMMA EmptySound ==
  ASSUME NEW c, c.view = EmptyCache
  PROVE  ViewSound(c)
  BY AbsentSound DEF ViewSound, EmptyCache

\* Fetching into pcoinsTip.
LEMMA TipFetchedSound ==
  ASSUME NEW c, Layers(c), NEW S, NEW d, d.tip = TipFetched(c, S), d.db = c.db
  PROVE  SameTip(c, d) /\ (TipSound(c) => TipSound(d))
<1>1. \A t \in Txids : d.tip[t] = IF t \in S /\ ~c.tip[t].in /\ ~Pruned(c.db[t])
                                  THEN Entry(c.db[t], FALSE, FALSE) ELSE c.tip[t]
  BY DEF TipFetched
<1>2. ASSUME NEW t \in Txids
      PROVE  /\ TipCoins(d, t) = TipCoins(c, t)
             /\ EntrySound(c.tip[t], c.db[t]) => EntrySound(d.tip[t], d.db[t])
  <2>1. CASE t \in S /\ ~c.tip[t].in /\ ~Pruned(c.db[t])
    <3>1. d.tip[t] = Entry(c.db[t], FALSE, FALSE)
      BY <1>1, <2>1
    <3>2. TipCoins(d, t) = c.db[t] /\ TipCoins(c, t) = c.db[t]
      BY <2>1, <3>1 DEF TipCoins, Entry
    <3> QED BY <3>1, <3>2, CleanSound
  <2>2. CASE ~(t \in S /\ ~c.tip[t].in /\ ~Pruned(c.db[t]))
    BY <1>1, <2>2 DEF TipCoins
  <2> QED BY <2>1, <2>2
<1> QED BY <1>2 DEF SameTip, TipSound

LEMMA TipFetchedType ==
  ASSUME NEW c, Layers(c), NEW S, NEW tip, tip = TipFetched(c, S)
  PROVE  tip = [t \in Txids |-> tip[t]] /\ \A t \in Txids : Cached(tip[t])
<1>1. tip = [t \in Txids |-> tip[t]]
  BY DEF TipFetched
<1>2. ASSUME NEW t \in Txids PROVE Cached(tip[t])
  <2>1. tip[t] = Entry(c.db[t], FALSE, FALSE) \/ tip[t] = c.tip[t]
    BY DEF TipFetched
  <2> QED BY <2>1, CachedForms DEF Layers
<1> QED BY <1>1, <1>2

LEMMA FetchTipSound ==
  ASSUME NEW c, Layers(c), NEW S
  PROVE  LET d == FetchTip(c, S)
         IN  Layers(d) /\ d.view = c.view /\ SameTip(c, d) /\ (TipSound(c) => TipSound(d))
<1> DEFINE d == FetchTip(c, S)
<1>1. /\ d = [db |-> c.db, tip |-> TipFetched(c, S), view |-> c.view]
      /\ d.tip = TipFetched(c, S) /\ d.db = c.db /\ d.view = c.view
  BY DEF FetchTip, Layers
<1> HIDE DEF d
<1>2. d.tip = [t \in Txids |-> d.tip[t]] /\ \A t \in Txids : Cached(d.tip[t])
  BY <1>1, TipFetchedType
<1>3. Layers(d)
  BY <1>1, <1>2 DEF Layers
<1> QED BY <1>1, <1>3, TipFetchedSound DEF d

\* Fetching into the view.
LEMMA FetchViewSound ==
  ASSUME NEW c, Layers(c), NEW S
  PROVE  LET d == FetchView(c, S)
         IN  /\ Layers(d) /\ SameTip(c, d) /\ (TipSound(c) => TipSound(d))
             /\ \A t \in Txids : ViewCoins(d, t) = ViewCoins(c, t)
             /\ ViewSound(c) => ViewSound(d)
<1> DEFINE d == FetchView(c, S)
           miss == {t \in S : ~c.view[t].in}
           tip == TipFetched(c, miss)
           view == [t \in Txids |-> IF t \in miss /\ tip[t].in
                                     THEN Entry(tip[t].coins, FALSE, Pruned(tip[t].coins))
                                     ELSE c.view[t]]
<1>0. d = [c EXCEPT !.tip = tip, !.view = view]
  BY DEF FetchView
<1>1. /\ d.tip = tip /\ d.db = c.db /\ d.view = view
      /\ d = [db |-> d.db, tip |-> d.tip, view |-> d.view]
  <2> HIDE DEF d, tip, view
  <2> QED BY <1>0 DEF Layers
<1> HIDE DEF d
<1>2. d.tip = [t \in Txids |-> d.tip[t]] /\ \A t \in Txids : Cached(d.tip[t])
  <2>1. d.tip = TipFetched(c, miss)
    BY <1>1
  <2> HIDE DEF miss
  <2> QED BY ONLY <2>1, Layers(c), TipFetchedType
<1>3. \A t \in Txids : d.view[t] = IF t \in miss /\ d.tip[t].in
                                   THEN Entry(d.tip[t].coins, FALSE, Pruned(d.tip[t].coins))
                                   ELSE c.view[t]
  <2> HIDE DEF tip, miss
  <2> QED BY <1>1
<1>4. Layers(d)
  <2>1. ASSUME NEW t \in Txids PROVE Cached(d.view[t])
    <3>1. \/ d.view[t] = c.view[t]
          \/ d.view[t] = Entry(d.tip[t].coins, FALSE, Pruned(d.tip[t].coins))
      BY <1>3
    <3>2. Pruned(d.tip[t].coins) \in BOOLEAN
      BY DEF Pruned
    <3> QED BY <3>1, <3>2, CachedForms DEF Layers
  <2>2. d.view = [t \in Txids |-> d.view[t]]
    BY <1>1
  <2> QED BY <1>1, <1>2, <2>1, <2>2 DEF Layers
<1> HIDE DEF tip
<1>5. SameTip(c, d) /\ (TipSound(c) => TipSound(d))
  BY <1>1, TipFetchedSound DEF tip
<1>6. ASSUME NEW t \in Txids
      PROVE  /\ ViewCoins(d, t) = ViewCoins(c, t)
             /\ EntrySound(c.view[t], TipCoins(c, t)) => EntrySound(d.view[t], TipCoins(d, t))
  <2>1. TipCoins(d, t) = TipCoins(c, t)
    BY <1>5 DEF SameTip
  <2>2. CASE t \in miss /\ d.tip[t].in
    <3>1. d.view[t] = Entry(TipCoins(d, t), FALSE, Pruned(TipCoins(d, t)))
      BY <1>3, <2>2 DEF TipCoins
    <3>2. ~c.view[t].in
      BY <2>2
    <3>3. ViewCoins(d, t) = TipCoins(d, t) /\ ViewCoins(c, t) = TipCoins(c, t)
      BY <3>1, <3>2 DEF ViewCoins, Entry
    <3> QED BY <2>1, <3>1, <3>3, CleanSound
  <2>3. CASE ~(t \in miss /\ d.tip[t].in)
    <3>1. d.view[t] = c.view[t]
      BY <1>3, <2>3
    <3> QED BY <2>1, <3>1 DEF ViewCoins
  <2> QED BY <2>2, <2>3
<1> QED BY <1>4, <1>5, <1>6 DEF d, ViewSound
\* The entry that a modifier leaves.
LEMMA ModifiedSound ==
  ASSUME NEW base, NEW k, NEW f \in BOOLEAN
  PROVE  LET e == Modified(Entry(k, TRUE, f))
         IN  /\ Cached(e)
             /\ (f => Pruned(base)) => EntrySound(e, base) /\ Same(IF e.in THEN e.coins ELSE base, k)
<1>1. CASE f /\ Pruned(k)
  <2>1. Modified(Entry(k, TRUE, f)) = Absent
    BY <1>1 DEF Modified, Entry
  <2>2. Absent.in = FALSE
    BY DEF Absent
  <2>3. (f => Pruned(base)) => Same(IF Absent.in THEN Absent.coins ELSE base, k)
    BY <1>1, <2>2 DEF Same
  <2> QED BY <1>1, <2>1, <2>3, CachedForms, AbsentSound
<1>2. CASE ~(f /\ Pruned(k))
  <2>1. Modified(Entry(k, TRUE, f)) = Entry(k, TRUE, f)
    BY <1>2 DEF Modified, Entry
  <2>2. Entry(k, TRUE, f).in = TRUE /\ Entry(k, TRUE, f).coins = k
    BY DEF Entry
  <2> QED BY <2>1, <2>2, CachedForms, DirtySound DEF Same
<1> QED BY <1>1, <1>2

LEMMA ModifyCoinsSound ==
  ASSUME NEW c, Layers(c), NEW S, NEW new
  PROVE  LET d == ModifyCoins(c, S, new)
         IN  /\ Layers(d) /\ SameTip(c, d) /\ (TipSound(c) => TipSound(d))
             /\ ViewSound(c) => /\ ViewSound(d)
                                /\ \A t \in Txids : Same(ViewCoins(d, t), IF t \in S THEN new[t] ELSE ViewCoins(c, t))
<1> DEFINE d == ModifyCoins(c, S, new)
           miss == {t \in S : ~c.view[t].in}
           fresh(t) == IF c.view[t].in THEN c.view[t].fresh ELSE Pruned(TipCoins(c, t))
           tip == TipFetched(c, miss)
           view == [t \in Txids |-> IF t \in S THEN Modified(Entry(new[t], TRUE, fresh(t))) ELSE c.view[t]]
<1>1. d = [c EXCEPT !.tip = tip, !.view = view]
  BY DEF ModifyCoins
<1>2. /\ d.tip = tip /\ d.db = c.db /\ d.view = view
      /\ d = [db |-> d.db, tip |-> d.tip, view |-> d.view]
  <2> HIDE DEF d, tip, view
  <2> QED BY <1>1 DEF Layers
<1> HIDE DEF d
<1>3. d.tip = [t \in Txids |-> d.tip[t]] /\ \A t \in Txids : Cached(d.tip[t])
  BY <1>2, TipFetchedType
<1>4. SameTip(c, d) /\ (TipSound(c) => TipSound(d))
  BY <1>2, TipFetchedSound
<1>5. ASSUME NEW t \in Txids PROVE fresh(t) \in BOOLEAN
  BY DEF Layers, Cached, Pruned
<1>6. ASSUME NEW t \in Txids
      PROVE  d.view[t] = IF t \in S THEN Modified(Entry(new[t], TRUE, fresh(t))) ELSE c.view[t]
  BY <1>2
<1> HIDE DEF fresh
<1>7. Layers(d)
  <2>1. ASSUME NEW t \in Txids PROVE Cached(d.view[t])
    <3>1. CASE t \in S
      <4>1. d.view[t] = Modified(Entry(new[t], TRUE, fresh(t)))
        BY <1>6, <3>1
      <4>2. fresh(t) \in BOOLEAN
        BY <1>5
      <4> QED BY <4>1, <4>2, ModifiedSound
    <3>2. CASE t \notin S
      BY <1>6, <3>2 DEF Layers
    <3> QED BY <3>1, <3>2
  <2>2. d.view = [t \in Txids |-> d.view[t]]
    BY <1>2
  <2> QED BY <1>2, <1>3, <2>1, <2>2 DEF Layers
<1>8. ASSUME ViewSound(c), NEW t \in Txids
      PROVE  /\ EntrySound(d.view[t], TipCoins(d, t))
             /\ Same(ViewCoins(d, t), IF t \in S THEN new[t] ELSE ViewCoins(c, t))
  <2>1. TipCoins(d, t) = TipCoins(c, t) /\ EntrySound(c.view[t], TipCoins(c, t))
    BY <1>4, <1>8 DEF SameTip, ViewSound
  <2>2. CASE t \in S
    <3>1. fresh(t) => Pruned(TipCoins(d, t))
      BY <2>1 DEF fresh, EntrySound
    <3>2. d.view[t] = Modified(Entry(new[t], TRUE, fresh(t)))
      BY <1>6, <2>2
    <3>3. /\ EntrySound(d.view[t], TipCoins(d, t))
          /\ Same(IF d.view[t].in THEN d.view[t].coins ELSE TipCoins(d, t), new[t])
      BY <1>5, <3>1, <3>2, ModifiedSound
    <3> QED BY <2>2, <3>3 DEF ViewCoins
  <2>3. CASE t \notin S
    BY <1>6, <2>1, <2>3 DEF ViewCoins, Same
  <2> QED BY <2>2, <2>3
<1> QED BY <1>4, <1>7, <1>8 DEF d, ViewSound

\* ModifyNewCoins does not look into the base: that the entry may be fresh is
\* the caller's obligation.
LEMMA ModifyNewCoinsSound ==
  ASSUME NEW c, Layers(c), NEW t \in Txids, NEW coinbase \in BOOLEAN, NEW new
  PROVE  LET d == ModifyNewCoins(c, t, coinbase, new)
         IN  /\ Layers(d) /\ SameTip(c, d) /\ (TipSound(c) => TipSound(d))
             /\ ViewSound(c) /\ (coinbase \/ Pruned(TipCoins(c, t))) => ViewSound(d)
<1> DEFINE d == ModifyNewCoins(c, t, coinbase, new)
           f == ~coinbase \/ c.view[t].fresh
           e == Modified(Entry(new, TRUE, f))
           view == [c.view EXCEPT ![t] = e]
<1>1. d = [c EXCEPT !.view = view]
  BY DEF ModifyNewCoins, Layers
<1>2. /\ d.tip = c.tip /\ d.db = c.db /\ d.view = view
      /\ d = [db |-> d.db, tip |-> d.tip, view |-> d.view]
  <2> HIDE DEF d, view
  <2> QED BY <1>1 DEF Layers
<1> HIDE DEF d
<1>3. f \in BOOLEAN
  BY DEF Layers, Cached
<1>4. SameTip(c, d) /\ (TipSound(c) => TipSound(d))
  BY <1>2 DEF SameTip, TipCoins, TipSound
<1>5. ASSUME NEW s \in Txids PROVE d.view[s] = IF s = t THEN e ELSE c.view[s]
  BY <1>2 DEF Layers
<1>6. Layers(d)
  <2>1. Cached(e)
    BY <1>3, ModifiedSound
  <2>2. d.view = [s \in Txids |-> d.view[s]]
    <3> HIDE DEF e
    <3> QED BY <1>2 DEF Layers
  <2> HIDE DEF e
  <2> QED BY <1>2, <1>5, <2>1, <2>2 DEF Layers
<1>7. ASSUME ViewSound(c), coinbase \/ Pruned(TipCoins(c, t)), NEW s \in Txids
      PROVE  EntrySound(d.view[s], TipCoins(d, s))
  <2>1. TipCoins(d, s) = TipCoins(c, s) /\ EntrySound(c.view[s], TipCoins(c, s))
    BY <1>4, <1>7 DEF SameTip, ViewSound
  <2>2. CASE s = t
    <3>1. f => Pruned(TipCoins(d, s))
      BY <1>7, <2>1, <2>2 DEF EntrySound
    <3>2. EntrySound(e, TipCoins(d, s))
      BY <1>3, <3>1, ModifiedSound
    <3> QED BY <1>5, <2>2, <3>2
  <2>3. CASE s # t
    BY <1>5, <2>1, <2>3
  <2> QED BY <2>2, <2>3
<1> QED BY <1>4, <1>6, <1>7 DEF d, ViewSound

\* A flush of the view makes its base show what the view showed.
LEMMA WrittenSound ==
  ASSUME NEW u, NEW v, Cached(u), Cached(v), NEW base,
         EntrySound(u, base), EntrySound(v, IF u.in THEN u.coins ELSE base)
  PROVE  LET e == Written(u, v)
         IN  /\ Cached(e) /\ EntrySound(e, base)
             /\ Same(IF e.in THEN e.coins ELSE base,
                     IF v.in THEN v.coins ELSE IF u.in THEN u.coins ELSE base)
<1> DEFINE e == Written(u, v)
           Shows(x) == Same(IF x.in THEN x.coins ELSE base,
                            IF v.in THEN v.coins ELSE IF u.in THEN u.coins ELSE base)
<1>1. CASE ~v.dirty
  <2>1. e = u
    BY <1>1 DEF Written
  <2> HIDE DEF e
  <2>2. Shows(u)
    BY <1>1 DEF EntrySound, Same
  <2> QED BY <2>1, <2>2 DEF e
<1>2. CASE v.dirty
  <2>1. v.in
    BY <1>2 DEF Cached, Absent
  <2> DEFINE f == IF u.in THEN u.fresh ELSE v.fresh
  <2>2. f \in BOOLEAN /\ (f => Pruned(base))
    BY DEF Cached, EntrySound
  <2>3. e = IF f /\ Pruned(v.coins) THEN Absent ELSE Entry(v.coins, TRUE, f)
    <3>1. CASE u.in
      BY <1>2, <3>1 DEF Written
    <3>2. CASE ~u.in
      BY <1>2, <3>2 DEF Written
    <3> QED BY <3>1, <3>2
  <2> HIDE DEF e, f
  <2>4. Absent.in = FALSE /\ Entry(v.coins, TRUE, f).in = TRUE /\ Entry(v.coins, TRUE, f).coins = v.coins
    BY DEF Absent, Entry
  <2>5. CASE f /\ Pruned(v.coins)
    <3>1. e = Absent
      BY <2>3, <2>5
    <3>2. Shows(e)
      BY <2>1, <2>2, <2>4, <2>5, <3>1 DEF Same
    <3> QED BY <3>1, <3>2, CachedForms, AbsentSound DEF e
  <2>6. CASE ~(f /\ Pruned(v.coins))
    <3>1. e = Entry(v.coins, TRUE, f)
      BY <2>3, <2>6
    <3>2. Shows(e)
      BY <2>1, <2>4, <3>1 DEF Same
    <3>3. EntrySound(e, base) /\ Cached(e)
      BY <2>2, <3>1, CachedForms, DirtySound
    <3> QED BY <3>2, <3>3 DEF e
  <2> QED BY <2>5, <2>6
<1> QED BY <1>1, <1>2 DEF Cached

LEMMA EmptyCached ==
  /\ EmptyCache = [t \in Txids |-> EmptyCache[t]]
  /\ \A t \in Txids : EmptyCache[t] = Absent /\ Cached(EmptyCache[t])
  BY CachedForms DEF EmptyCache

LEMMA FlushViewSound ==
  ASSUME NEW c, Layers(c), TipSound(c), ViewSound(c)
  PROVE  LET d == FlushView(c)
         IN  /\ Layers(d) /\ TipSound(d) /\ ViewSound(d)
             /\ d.db = c.db /\ d.view = EmptyCache
             /\ \A t \in Txids : Same(TipCoins(d, t), ViewCoins(c, t))
<1> DEFINE d == FlushView(c)
           tip == [t \in Txids |-> Written(c.tip[t], c.view[t])]
<1>1. d = [c EXCEPT !.tip = tip, !.view = EmptyCache]
  BY DEF FlushView
<1>2. /\ d.tip = tip /\ d.db = c.db /\ d.view = EmptyCache
      /\ d = [db |-> d.db, tip |-> d.tip, view |-> d.view]
  <2> HIDE DEF d, tip
  <2> QED BY <1>1 DEF Layers
<1> HIDE DEF d
<1>3. ASSUME NEW t \in Txids
      PROVE  /\ Cached(d.tip[t]) /\ EntrySound(d.tip[t], d.db[t])
             /\ Same(TipCoins(d, t), ViewCoins(c, t))
  <2>1. d.tip[t] = Written(c.tip[t], c.view[t])
    BY <1>2
  <2>2. Cached(c.tip[t]) /\ Cached(c.view[t]) /\ EntrySound(c.tip[t], c.db[t])
    BY DEF Layers, TipSound
  <2>3. EntrySound(c.view[t], IF c.tip[t].in THEN c.tip[t].coins ELSE c.db[t])
    BY DEF ViewSound, TipCoins
  <2>4. /\ Cached(d.tip[t]) /\ EntrySound(d.tip[t], c.db[t])
        /\ Same(IF d.tip[t].in THEN d.tip[t].coins ELSE c.db[t],
                IF c.view[t].in THEN c.view[t].coins
                ELSE IF c.tip[t].in THEN c.tip[t].coins ELSE c.db[t])
    BY <2>1, <2>2, <2>3, WrittenSound
  <2> QED BY <1>2, <2>4 DEF TipCoins, ViewCoins
<1>4. d.tip = [t \in Txids |-> d.tip[t]]
  BY <1>2
<1>5. Layers(d)
  BY <1>2, <1>3, <1>4, EmptyCached DEF Layers
<1> QED BY <1>2, <1>3, <1>5, EmptySound DEF d, TipSound

\* A view that is dropped leaves everything below as it was.
LEMMA DropViewSound ==
  ASSUME NEW c, Layers(c)
  PROVE  LET d == DropView(c)
         IN  /\ Layers(d) /\ SameTip(c, d) /\ (TipSound(c) => TipSound(d))
             /\ ViewSound(d) /\ d.view = EmptyCache
<1> DEFINE d == DropView(c)
<1>1. /\ d.tip = c.tip /\ d.db = c.db /\ d.view = EmptyCache
      /\ d = [db |-> d.db, tip |-> d.tip, view |-> d.view]
  BY DEF DropView, Layers
<1> HIDE DEF d
<1>2. Layers(d)
  BY <1>1, EmptyCached DEF Layers
<1>3. SameTip(c, d) /\ (TipSound(c) => TipSound(d))
  BY <1>1 DEF SameTip, TipCoins, TipSound
<1> QED BY <1>1, <1>2, <1>3, EmptySound DEF d

\* A flush of pcoinsTip makes the database hold what pcoinsTip showed.
LEMMA FlushTipSound ==
  ASSUME NEW c, Layers(c), TipSound(c), c.view = EmptyCache
  PROVE  LET d == FlushTip(c)
         IN  /\ Layers(d) /\ TipSound(d) /\ ViewSound(d) /\ d.view = EmptyCache
             /\ \A t \in Txids : d.db[t] = TipCoins(d, t) /\ Same(d.db[t], TipCoins(c, t))
<1> DEFINE d == FlushTip(c)
           db == [t \in Txids |-> IF ~c.tip[t].dirty THEN c.db[t]
                                  ELSE IF Pruned(c.tip[t].coins) THEN NoCoins
                                  ELSE c.tip[t].coins]
<1>1. d = [c EXCEPT !.db = db, !.tip = EmptyCache]
  BY DEF FlushTip
<1>2. /\ d.tip = EmptyCache /\ d.db = db /\ d.view = EmptyCache
      /\ d = [db |-> d.db, tip |-> d.tip, view |-> d.view]
  <2> HIDE DEF d, db
  <2> QED BY <1>1 DEF Layers
<1> HIDE DEF d
<1>3. Layers(d)
  BY <1>2, EmptyCached DEF Layers
<1>4. TipSound(d)
  BY <1>2, EmptyCached, AbsentSound DEF TipSound
<1>5. ASSUME NEW t \in Txids PROVE d.db[t] = TipCoins(d, t) /\ Same(d.db[t], TipCoins(c, t))
  <2>1. d.db[t] = TipCoins(d, t)
    BY <1>2, EmptyCached DEF TipCoins, Absent
  <2>2. CASE ~c.tip[t].dirty
    <3>1. d.db[t] = c.db[t]
      BY <1>2, <2>2
    <3> QED BY <2>1, <2>2, <3>1 DEF TipCoins, TipSound, EntrySound, Same
  <2>3. CASE c.tip[t].dirty
    <3>1. c.tip[t].in
      BY <2>3 DEF Layers, Cached, Absent
    <3>2. d.db[t] = IF Pruned(c.tip[t].coins) THEN NoCoins ELSE c.tip[t].coins
      BY <1>2, <2>3
    <3>3. Pruned(NoCoins)
      BY DEF Pruned, NoCoins
    <3> QED BY <2>1, <3>1, <3>2, <3>3 DEF TipCoins, Same
  <2> QED BY <2>2, <2>3
<1> QED BY <1>2, <1>3, <1>4, <1>5, EmptySound DEF d

LEMMA UncacheSound ==
  ASSUME NEW c, Layers(c), TipSound(c), c.view = EmptyCache, NEW t \in Txids
  PROVE  LET d == Uncache(c, t)
         IN  /\ Layers(d) /\ TipSound(d) /\ ViewSound(d) /\ d.db = c.db /\ d.view = EmptyCache
             /\ \A s \in Txids : Same(TipCoins(d, s), TipCoins(c, s))
<1> DEFINE d == Uncache(c, t)
           tip == [c.tip EXCEPT ![t] = Absent]
<1>1. CASE ~(c.tip[t].in /\ ~c.tip[t].dirty /\ ~c.tip[t].fresh)
  BY <1>1, EmptySound DEF Uncache, Same
<1>2. CASE c.tip[t].in /\ ~c.tip[t].dirty /\ ~c.tip[t].fresh
  <2>1. d = [c EXCEPT !.tip = tip]
    BY <1>2 DEF Uncache, Layers
  <2>2. /\ d.tip = tip /\ d.db = c.db /\ d.view = EmptyCache
        /\ d = [db |-> d.db, tip |-> d.tip, view |-> d.view]
    <3> HIDE DEF d, tip
    <3> QED BY <2>1 DEF Layers
  <2> HIDE DEF d
  <2>3. /\ d.tip = [s \in Txids |-> d.tip[s]]
        /\ \A s \in Txids : d.tip[s] = IF s = t THEN Absent ELSE c.tip[s]
    BY <2>2 DEF Layers
  <2>4. Layers(d)
    BY <2>2, <2>3, EmptyCached, CachedForms DEF Layers
  <2>5. TipSound(d)
    BY <2>2, <2>3, AbsentSound DEF TipSound
  <2>6. ASSUME NEW s \in Txids PROVE Same(TipCoins(d, s), TipCoins(c, s))
    <3>1. CASE s = t
      <4>1. Same(c.tip[t].coins, c.db[t])
        BY <1>2 DEF TipSound, EntrySound
      <4>2. TipCoins(d, t) = c.db[t] /\ TipCoins(c, t) = c.tip[t].coins
        BY <1>2, <2>2, <2>3 DEF TipCoins, Absent
      <4> QED BY <3>1, <4>1, <4>2 DEF Same
    <3>2. CASE s # t
      BY <2>2, <2>3, <3>2 DEF TipCoins, Same
    <3> QED BY <3>1, <3>2
  <2> QED BY <2>2, <2>4, <2>5, <2>6, EmptySound DEF d
<1> QED BY <1>1, <1>2

LEMMA ReopenedSound ==
  ASSUME NEW c
  PROVE  LET d == Reopened(c)
         IN  /\ Layers(d) /\ TipSound(d) /\ ViewSound(d) /\ d.db = c.db /\ d.view = EmptyCache
             /\ \A t \in Txids : TipCoins(d, t) = c.db[t]
<1> DEFINE d == Reopened(c)
<1>1. /\ d.tip = EmptyCache /\ d.db = c.db /\ d.view = EmptyCache
      /\ d = [db |-> d.db, tip |-> d.tip, view |-> d.view]
  BY DEF Reopened
<1> HIDE DEF d
<1>2. Layers(d) /\ TipSound(d)
  BY <1>1, EmptyCached, AbsentSound DEF Layers, TipSound
<1>3. \A t \in Txids : TipCoins(d, t) = c.db[t]
  BY <1>1, EmptyCached DEF TipCoins, Absent
<1> QED BY <1>1, <1>2, <1>3, EmptySound DEF d
=============================================================================

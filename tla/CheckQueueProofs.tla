-------------------------- MODULE CheckQueueProofs --------------------------
(***************************************************************************)
(* What the critical sections of CCheckQueue keep, for any number of       *)
(* threads and any checks.                                                 *)
(***************************************************************************)
EXTENDS CheckQueue, FiniteSetTheorems, FunctionTheorems, TLAPS

\* Checks wait in the queue once, or are in the hands of one thread, and the
\* threads at work are those that hold some.
Shape ==
    /\ queue \in Seq(Checks)
    /\ \A m, n \in 1..Len(queue) : queue[m] = queue[n] => m = n
    /\ batch \in [Threads -> SUBSET Checks]
    /\ \A t \in Threads : batch[t] \cap Queued = {}
    /\ \A t, u \in Threads : t # u => batch[t] \cap batch[u] = {}
    /\ pc \in [Threads -> {"out", "start", "wait", "woken", "work"}]
    /\ \A t \in Threads : pc[t] = "work" <=> batch[t] # {}

\* The counters count checks and threads.
InLoop == {t \in Threads : pc[t] \in {"wait", "woken", "work"}}
AtWait == {t \in Threads : pc[t] \in {"wait", "woken"}}
Counts ==
    /\ IsFiniteSet(Pending) /\ nTodo = Cardinality(Pending)
    /\ nTotal = Cardinality(InLoop) /\ nIdle = Cardinality(AtWait)

\* A thread that has seen a failure has seen it in fAllOk, and is at work.
Agreed ==
    /\ fAllOk \in BOOLEAN /\ fOk \in [Threads -> BOOLEAN]
    /\ \A t \in Threads : fAllOk \/ pc[t] # "work" => fOk[t]

\* When A has been added since the last Wait(): fAllOk is false exactly when a
\* check that has been reported is not good.
Exact(A) ==
    /\ Pending \subseteq A
    /\ fAllOk => A \ Pending \subseteq Good
    /\ ~fAllOk => ~(A \subseteq Good)

-----------------------------------------------------------------------------
LEMMA ThreadsFinite == IsFiniteSet(Threads)
  BY QueueAssumption, FS_Singleton, FS_Union DEF Threads

LEMMA DivBound ==
  ASSUME NEW a \in Nat, NEW k \in Nat \ {0}
  PROVE  a \div k \in Nat /\ a \div k <= a
  BY SMT

\* A thread takes at least one check and no more than there are.
LEMMA ShareInQueue ==
  ASSUME queue \in Seq(Checks), queue # << >>, NEW total \in Nat, NEW idle \in Nat
  PROVE  Share(total, idle) \in 1..Len(queue)
<1>1. Len(queue) \in Nat \ {0}
  BY SMT
<1>2. total + idle + 1 \in Nat \ {0}
  BY SMT
<1> QED BY <1>1, <1>2, DivBound, QueueAssumption DEF Share

\* Taking from the end splits the queue.
Elements(q) == {q[n] : n \in 1..Len(q)}
Distinct(q) == \A m, n \in 1..Len(q) : q[m] = q[n] => m = n
Taken(q, left) == {q[n] : n \in (left + 1)..Len(q)}
LEMMA TakeSplits ==
  ASSUME NEW q \in Seq(Checks), Distinct(q), NEW left \in 0..Len(q), left < Len(q)
  PROVE  /\ SubSeq(q, 1, left) \in Seq(Checks) /\ Distinct(SubSeq(q, 1, left))
         /\ Elements(SubSeq(q, 1, left)) \cup Taken(q, left) = Elements(q)
         /\ Elements(SubSeq(q, 1, left)) \cap Taken(q, left) = {}
         /\ Taken(q, left) # {}
<1> DEFINE r == SubSeq(q, 1, left)
           A == Elements(r)
           B == Taken(q, left)
<1>0. \A m, n \in 1..Len(q) : q[m] = q[n] => m = n
  BY DEF Distinct
<1>1. r \in Seq(Checks) /\ Len(r) = left /\ \A n \in 1..left : r[n] = q[n]
  BY SMT
<1> HIDE DEF r
<1>2. \A x : x \in A <=> \E n \in 1..left : x = q[n]
  BY <1>1, SMT DEF Elements
<1>3. \A x : x \in B <=> \E n \in (left + 1)..Len(q) : x = q[n]
  BY DEF Taken
<1>4. \A x : x \in Elements(q) <=> \E n \in 1..Len(q) : x = q[n]
  BY DEF Elements
<1> HIDE DEF A, B
<1>5. 1..Len(q) = (1..left) \cup ((left + 1)..Len(q))
  BY SMT
<1>6. A \cup B = Elements(q)
  BY <1>2, <1>3, <1>4, <1>5
<1>7. A \cap B = {}
  BY <1>0, <1>2, <1>3, SMT
<1>8. q[Len(q)] \in B
  BY <1>3, SMT
<1>9. Distinct(r)
  BY <1>0, <1>1, SMT DEF Distinct
<1> QED BY <1>1, <1>6, <1>7, <1>8, <1>9 DEF A, B, r

PCs == {"out", "start", "wait", "woken", "work"}

\* A critical section takes what thread t had out of the pending checks and
\* nothing else, and leaves every other check in one place.  Here p is pc, with
\* the master woken perhaps.
LEMMA ProceedHands ==
  ASSUME Shape, NEW t \in Threads, NEW p \in [Threads -> PCs],
         NEW total \in Nat, NEW idle \in Nat, NEW todo, NEW ok,
         \A u \in Threads \ {t} : p[u] = "work" <=> pc[u] = "work",
         Proceed(t, p, total, idle, todo, ok)
  PROVE  Shape' /\ Pending' = Pending \ batch[t]
<1>1. PICK B \in SUBSET Checks :
         /\ batch' = [batch EXCEPT ![t] = B]
         /\ queue' \in Seq(Checks)
         /\ \A m, n \in 1..Len(queue') : queue'[m] = queue'[n] => m = n
         /\ Queued' \cup B = Queued /\ Queued' \cap B = {}
         /\ pc' \in [Threads -> PCs]
         /\ \A u \in Threads \ {t} : pc'[u] = p[u]
         /\ pc'[t] = "work" <=> B # {}
  <2>1. CASE Take(t, p, total, idle, todo, ok)
    <3> DEFINE left == Len(queue) - Share(total, idle)
               B == Taken(queue, left)
    <3>0. queue \in Seq(Checks) /\ Share(total, idle) \in 1..Len(queue)
      BY <2>1, ShareInQueue DEF Shape, Take
    <3>1. left \in 0..Len(queue) /\ left < Len(queue)
      BY <3>0
    <3>2. queue' = SubSeq(queue, 1, left) /\ batch' = [batch EXCEPT ![t] = B]
      BY <2>1 DEF Take, Taken
    <3>3. pc' = [p EXCEPT ![t] = "work"]
      BY <2>1 DEF Take
    <3> HIDE DEF left
    <3>4. /\ queue' \in Seq(Checks)
          /\ \A m, n \in 1..Len(queue') : queue'[m] = queue'[n] => m = n
          /\ Queued' \cup B = Queued /\ Queued' \cap B = {} /\ B # {}
      <4>1. Distinct(queue)
        BY DEF Shape, Distinct
      <4>2. /\ queue' \in Seq(Checks) /\ Distinct(queue')
            /\ Elements(queue') \cup B = Elements(queue) /\ Elements(queue') \cap B = {} /\ B # {}
        BY <3>0, <3>1, <3>2, <4>1, TakeSplits
      <4> QED BY <4>2 DEF Queued, Elements, Distinct
    <3>5. B \subseteq Checks
      BY <3>0, <3>1 DEF Taken
    <3> HIDE DEF B
    <3> QED BY <3>2, <3>3, <3>4, <3>5 DEF PCs
  <2>2. CASE Return(t, p, total, idle, todo, ok) \/ Sleep(t, p, total, idle, todo, ok)
    <3>1. batch' = [batch EXCEPT ![t] = {}] /\ queue' = queue
      BY <2>2 DEF Return, Sleep
    <3>2. pc' \in [Threads -> PCs] /\ (\A u \in Threads \ {t} : pc'[u] = p[u]) /\ pc'[t] # "work"
      BY <2>2 DEF Return, Sleep, PCs
    <3>3. queue' \in Seq(Checks) /\ \A m, n \in 1..Len(queue') : queue'[m] = queue'[n] => m = n
      BY <3>1 DEF Shape
    <3>4. Queued' = Queued
      BY <3>1 DEF Queued
    <3> QED BY <3>1, <3>2, <3>3, <3>4
  <2> QED BY <2>1, <2>2 DEF Proceed
<1>2. /\ batch \in [Threads -> SUBSET Checks]
      /\ \A u \in Threads : batch[u] \cap Queued = {}
      /\ \A u, v \in Threads : u # v => batch[u] \cap batch[v] = {}
      /\ \A u \in Threads : pc[u] = "work" <=> batch[u] # {}
  BY DEF Shape
<1>3. batch' \in [Threads -> SUBSET Checks]
  BY <1>1, <1>2
<1>4. batch'[t] = B /\ \A u \in Threads \ {t} : batch'[u] = batch[u]
  BY <1>1, <1>2
<1>5. \A u \in Threads : batch'[u] \cap Queued' = {}
  BY <1>1, <1>2, <1>4
<1>6. \A u, v \in Threads : u # v => batch'[u] \cap batch'[v] = {}
  BY <1>1, <1>2, <1>4
<1>7. \A u \in Threads : pc'[u] = "work" <=> batch'[u] # {}
  BY <1>1, <1>2, <1>4
<1>8. Pending' = Pending \ batch[t]
  <2>1. \A x : x \in Pending <=> x \in Queued \/ \E u \in Threads : x \in batch[u]
    BY DEF Pending
  <2>2. \A x : x \in Pending' <=> x \in Queued' \/ \E u \in Threads : x \in batch'[u]
    BY DEF Pending, Threads
  <2> QED BY <1>1, <1>2, <1>4, <2>1, <2>2
<1> QED BY <1>1, <1>3, <1>5, <1>6, <1>7, <1>8 DEF Shape, PCs
-----------------------------------------------------------------------------
\* A step of thread t: the values with which its critical section proceeds
\* are what its report leaves.
Section(t, p, total, idle, todo, ok) ==
    /\ p \in [Threads -> PCs]
    /\ \A u \in Threads \ {t} : /\ p[u] = "work" <=> pc[u] = "work"
                                /\ p[u] \in {"wait", "woken"} <=> pc[u] \in {"wait", "woken"}
                                /\ p[u] = "out" <=> pc[u] = "out"
    /\ total = Cardinality(InLoop \cup {t})
    /\ idle = Cardinality(AtWait \ {t})
    /\ todo = Cardinality(Pending \ batch[t])
    /\ ok \in BOOLEAN /\ (ok <=> fAllOk /\ fOk[t] /\ batch[t] \subseteq Good)

LEMMA GroupsFinite ==
  IsFiniteSet(InLoop) /\ IsFiniteSet(AtWait) /\ AtWait \subseteq InLoop /\ InLoop \subseteq Threads
  BY ThreadsFinite, FS_Subset DEF InLoop, AtWait

LEMMA StepIsSection ==
  ASSUME Shape, Counts, Agreed, NEW t \in Threads, QueueStep(t)
  PROVE  \E p, total, idle, todo, ok : /\ Section(t, p, total, idle, todo, ok)
                                       /\ Proceed(t, p, total, idle, todo, ok)
<1>1. pc \in [Threads -> PCs] /\ fAllOk \in BOOLEAN /\ fOk[t] \in BOOLEAN
  BY DEF Shape, PCs, Agreed
<1>2. ASSUME pc[t] # "work"
      PROVE  /\ nTodo = Cardinality(Pending \ batch[t])
             /\ fAllOk <=> fAllOk /\ fOk[t] /\ batch[t] \subseteq Good
  <2>1. batch[t] = {} /\ fOk[t] = TRUE
    BY <1>1, <1>2 DEF Shape, Agreed
  <2>2. Pending \ batch[t] = Pending
    BY <2>1
  <2> QED BY <2>1, <2>2 DEF Counts
<1>3. CASE Start(t)
  <2>1. pc[t] = "start" /\ Proceed(t, pc, nTotal + 1, nIdle, nTodo, fAllOk)
    BY <1>3 DEF Start
  <2>2. nTotal + 1 = Cardinality(InLoop \cup {t})
    BY <2>1, GroupsFinite, FS_AddElement DEF Counts, InLoop
  <2>3. AtWait \ {t} = AtWait
    BY <2>1 DEF AtWait
  <2>4. nIdle = Cardinality(AtWait \ {t})
    BY <2>3 DEF Counts
  <2>5. Section(t, pc, nTotal + 1, nIdle, nTodo, fAllOk)
    BY <1>1, <1>2, <2>1, <2>2, <2>4 DEF Section
  <2> QED BY <2>1, <2>5
<1>4. CASE Resume(t) \/ WakeSpuriously(t)
  <2>1. pc[t] \in {"wait", "woken"} /\ Proceed(t, pc, nTotal, nIdle - 1, nTodo, fAllOk)
    BY <1>4 DEF Resume, WakeSpuriously
  <2>2. InLoop \cup {t} = InLoop /\ t \in AtWait
    BY <2>1 DEF InLoop, AtWait
  <2>3. nTotal = Cardinality(InLoop \cup {t}) /\ nIdle - 1 = Cardinality(AtWait \ {t})
    BY <2>2, GroupsFinite, FS_RemoveElement DEF Counts
  <2>4. Section(t, pc, nTotal, nIdle - 1, nTodo, fAllOk)
    BY <1>1, <1>2, <2>1, <2>3 DEF Section
  <2> QED BY <2>1, <2>4
<1>5. CASE Finish(t)
  <2> DEFINE todo == nTodo - Cardinality(batch[t])
             wake == todo = 0 /\ t # Master /\ pc[Master] = "wait"
             p    == IF wake THEN [pc EXCEPT ![Master] = "woken"] ELSE pc
             ok   == fAllOk /\ fOk[t] /\ batch[t] \subseteq Good
  <2>1. pc[t] = "work" /\ Proceed(t, p, nTotal, nIdle, todo, ok)
    BY <1>5 DEF Finish
  <2>2. InLoop \cup {t} = InLoop /\ AtWait \ {t} = AtWait
    BY <2>1 DEF InLoop, AtWait
  <2>3. nTotal = Cardinality(InLoop \cup {t}) /\ nIdle = Cardinality(AtWait \ {t})
    BY <2>2 DEF Counts
  <2>4. todo = Cardinality(Pending \ batch[t])
    <3>1. Pending \cap batch[t] = batch[t]
      BY DEF Pending
    <3>2. Cardinality(Pending \ batch[t]) = Cardinality(Pending) - Cardinality(Pending \cap batch[t])
      BY FS_Difference DEF Counts
    <3> QED BY <3>1, <3>2 DEF Counts
  <2>5. p \in [Threads -> PCs]
    BY <1>1 DEF PCs
  <2>6. \A u \in Threads \ {t} : /\ p[u] = "work" <=> pc[u] = "work"
                                 /\ p[u] \in {"wait", "woken"} <=> pc[u] \in {"wait", "woken"}
                                 /\ p[u] = "out" <=> pc[u] = "out"
    BY <1>1
  <2> HIDE DEF p, todo
  <2>7. Section(t, p, nTotal, nIdle, todo, ok)
    BY <1>1, <2>3, <2>4, <2>5, <2>6 DEF Section
  <2> HIDE DEF ok
  <2> QED BY <2>1, <2>7
<1> QED BY <1>3, <1>4, <1>5 DEF QueueStep, ThreadStep
\* The critical sections keep the counters and the flags.
LEMMA StepKeepsCounts ==
  ASSUME Shape, Counts, Agreed, NEW t \in Threads, QueueStep(t)
  PROVE  Shape' /\ Counts' /\ Agreed' /\ Pending' = Pending \ batch[t]
<1>1. PICK p, total, idle, todo, ok : /\ Section(t, p, total, idle, todo, ok)
                                      /\ Proceed(t, p, total, idle, todo, ok)
  BY StepIsSection
<1>2. total = Cardinality(InLoop \cup {t}) /\ idle = Cardinality(AtWait \ {t})
  BY <1>1 DEF Section
<1>3. IsFiniteSet(InLoop \cup {t}) /\ IsFiniteSet(AtWait \ {t})
  BY GroupsFinite, FS_AddElement, FS_RemoveElement
<1>4. total \in Nat /\ idle \in Nat
  BY <1>2, <1>3, FS_CardinalityType
<1>5. Shape' /\ Pending' = Pending \ batch[t]
  BY <1>1, <1>4, ProceedHands DEF Section
<1>6. IsFiniteSet(Pending') /\ nTodo' = Cardinality(Pending')
  <2>1. nTodo' = todo
    BY <1>1 DEF Proceed, Take, Return, Sleep
  <2>2. IsFiniteSet(Pending \ batch[t])
    BY FS_Difference DEF Counts
  <2> QED BY <1>1, <1>5, <2>1, <2>2 DEF Section
<1>7. pc \in [Threads -> PCs] /\ p \in [Threads -> PCs]
  BY <1>1 DEF Section, Shape, PCs
<1>8. \A u \in Threads \ {t} : /\ p[u] = "work" <=> pc[u] = "work"
                               /\ p[u] \in {"wait", "woken"} <=> pc[u] \in {"wait", "woken"}
  BY <1>1 DEF Section
<1>9. nTotal' = Cardinality(InLoop') /\ nIdle' = Cardinality(AtWait')
  <2>1. CASE Take(t, p, total, idle, todo, ok)
    <3>1. pc' = [p EXCEPT ![t] = "work"] /\ nTotal' = total /\ nIdle' = idle
      BY <2>1 DEF Take
    <3>2. InLoop' = InLoop \cup {t} /\ AtWait' = AtWait \ {t}
      BY <1>7, <1>8, <3>1 DEF InLoop, AtWait, Threads
    <3> QED BY <1>2, <3>1, <3>2
  <2>2. CASE Return(t, p, total, idle, todo, ok)
    <3>1. pc' = [p EXCEPT ![t] = "out"] /\ nTotal' = total - 1 /\ nIdle' = idle
      BY <2>2 DEF Return
    <3>2. InLoop' = (InLoop \cup {t}) \ {t} /\ AtWait' = AtWait \ {t}
      BY <1>7, <1>8, <3>1 DEF InLoop, AtWait, Threads
    <3>3. Cardinality((InLoop \cup {t}) \ {t}) = total - 1
      BY <1>2, <1>3, FS_RemoveElement
    <3> QED BY <1>2, <3>1, <3>2, <3>3
  <2>3. CASE Sleep(t, p, total, idle, todo, ok)
    <3>1. pc' = [p EXCEPT ![t] = "wait"] /\ nTotal' = total /\ nIdle' = idle + 1
      BY <2>3 DEF Sleep
    <3>2. InLoop' = InLoop \cup {t} /\ AtWait' = (AtWait \ {t}) \cup {t}
      BY <1>7, <1>8, <3>1 DEF InLoop, AtWait, Threads
    <3>3. Cardinality((AtWait \ {t}) \cup {t}) = idle + 1
      BY <1>2, <1>3, FS_AddElement
    <3> QED BY <1>2, <3>1, <3>2, <3>3
  <2> QED BY <1>1, <2>1, <2>2, <2>3 DEF Proceed
<1>10. Agreed'
  <2>1. /\ fOk \in [Threads -> BOOLEAN] /\ fAllOk \in BOOLEAN
        /\ \A u \in Threads : fAllOk \/ pc[u] # "work" => fOk[u]
    BY DEF Agreed
  <2>2. ok \in BOOLEAN /\ (ok => fAllOk)
    BY <1>1 DEF Section
  <2>3. CASE Take(t, p, total, idle, todo, ok)
    <3>1. fOk' = [fOk EXCEPT ![t] = ok] /\ fAllOk' = ok /\ pc' = [p EXCEPT ![t] = "work"]
      BY <2>3 DEF Take
    <3> QED BY <1>7, <1>8, <2>1, <2>2, <3>1 DEF Agreed, Threads
  <2>4. CASE Return(t, p, total, idle, todo, ok)
    <3>1. /\ fOk' = [fOk EXCEPT ![t] = TRUE] /\ fAllOk' = TRUE
          /\ pc' = [p EXCEPT ![t] = "out"] /\ todo = 0
      BY <2>4 DEF Return
    <3>2. nTodo' = 0
      BY <2>4, <3>1 DEF Return
    <3>3. Pending' = {}
      BY <1>6, <3>2, FS_EmptySet
    <3>4. \A u \in Threads : pc'[u] # "work"
      BY <1>5, <3>3 DEF Shape, Pending, Threads
    <3> QED BY <1>7, <1>8, <2>1, <3>1, <3>4 DEF Agreed, Threads
  <2>5. CASE Sleep(t, p, total, idle, todo, ok)
    <3>1. fOk' = [fOk EXCEPT ![t] = TRUE] /\ fAllOk' = ok /\ pc' = [p EXCEPT ![t] = "wait"]
      BY <2>5 DEF Sleep
    <3> QED BY <1>7, <1>8, <2>1, <2>2, <3>1 DEF Agreed, Threads
  <2> QED BY <1>1, <2>3, <2>4, <2>5 DEF Proceed
<1> QED BY <1>5, <1>6, <1>9, <1>10 DEF Counts

\* A critical section keeps fAllOk exact for what has been added, and the one
\* in which the master returns passes it on.
LEMMA StepKeepsExact ==
  ASSUME Shape, Counts, Agreed, NEW t \in Threads, QueueStep(t), NEW A, Exact(A)
  PROVE  \/ /\ Pending' \subseteq A
            /\ fAllOk' => A \ Pending' \subseteq Good
            /\ ~fAllOk' => ~(A \subseteq Good)
            /\ verdict' = verdict
            /\ pc'[Master] = "out" <=> pc[Master] = "out"
         \/ /\ t = Master /\ pc[Master] # "out" /\ pc'[Master] = "out"
            /\ Pending' = {} /\ fAllOk' = TRUE
            /\ verdict' \in BOOLEAN /\ (verdict' <=> A \subseteq Good)
<1>1. PICK p, total, idle, todo, ok : /\ Section(t, p, total, idle, todo, ok)
                                      /\ Proceed(t, p, total, idle, todo, ok)
  BY StepIsSection
<1>2. Counts' /\ Pending' = Pending \ batch[t]
  BY StepKeepsCounts
<1>3. /\ p \in [Threads -> PCs] /\ Master \in Threads
      /\ ok \in BOOLEAN /\ (ok <=> fAllOk /\ fOk[t] /\ batch[t] \subseteq Good)
      /\ \A u \in Threads \ {t} : p[u] = "out" <=> pc[u] = "out"
  BY <1>1 DEF Section, Threads
<1>4. pc[t] # "out"
  BY DEF QueueStep, ThreadStep, Start, Finish, Resume, WakeSpuriously
<1>5. Pending' \subseteq A
  BY <1>2 DEF Exact
<1>6. batch[t] \subseteq A
  BY DEF Pending, Exact
<1>7. ok => A \ Pending' \subseteq Good
  BY <1>2, <1>3 DEF Exact
<1>8. ~ok => ~(A \subseteq Good)
  <2>1. CASE ~fAllOk
    BY <2>1 DEF Exact
  <2>2. CASE fAllOk
    <3>1. fOk[t]
      BY <2>2 DEF Agreed
    <3> QED BY <1>3, <1>6, <2>2, <3>1
  <2> QED BY <2>1, <2>2
<1>9. CASE Return(t, p, total, idle, todo, ok)
  <2>1. /\ t = Master /\ verdict' = ok /\ fAllOk' = TRUE /\ nTodo' = 0
        /\ pc' = [p EXCEPT ![t] = "out"]
    BY <1>9 DEF Return
  <2>2. Pending' = {}
    BY <1>2, <2>1, FS_EmptySet DEF Counts
  <2>3. pc'[Master] = "out"
    BY <1>3, <2>1
  <2> QED BY <1>3, <1>4, <1>7, <1>8, <2>1, <2>2, <2>3
<1>10. CASE Take(t, p, total, idle, todo, ok) \/ Sleep(t, p, total, idle, todo, ok)
  <2>1. /\ verdict' = verdict /\ fAllOk' = ok
        /\ pc' = [p EXCEPT ![t] = "work"] \/ pc' = [p EXCEPT ![t] = "wait"]
    BY <1>10 DEF Take, Sleep
  <2>2. pc'[Master] = "out" <=> pc[Master] = "out"
    BY <1>3, <1>4, <2>1
  <2> QED BY <1>5, <1>7, <1>8, <2>1, <2>2
<1> QED BY <1>1, <1>9, <1>10 DEF Proceed

-----------------------------------------------------------------------------
LEMMA DistinctCount ==
  ASSUME NEW s \in Seq(Checks), Distinct(s)
  PROVE  IsFiniteSet(Elements(s)) /\ Cardinality(Elements(s)) = Len(s)
<1>1. s \in [1..Len(s) -> Elements(s)] /\ Len(s) \in Nat
  BY DEF Elements
<1>2. s \in Bijection(1..Len(s), Elements(s))
  <2>1. \A m, n \in 1..Len(s) : s[m] = s[n] => m = n
    BY DEF Distinct
  <2>2. \A x \in Elements(s) : \E n \in 1..Len(s) : s[n] = x
    BY DEF Elements
  <2> QED BY <1>1, <2>1, <2>2, Fun_IsBij
<1>3. IsFiniteSet(1..Len(s)) /\ Cardinality(1..Len(s)) = Len(s)
  <2>1. IsFiniteSet(1..Len(s)) /\ Cardinality(1..Len(s)) = IF 1 > Len(s) THEN 0 ELSE Len(s) - 1 + 1
    BY <1>1, FS_Interval
  <2> QED BY <1>1, <2>1
<1>4. ExistsBijection(1..Len(s), Elements(s))
  BY <1>2 DEF ExistsBijection
<1> QED BY <1>3, <1>4, FS_Bijection

\* Add keeps all of it when the checks are new.
LEMMA AddKeeps ==
  ASSUME Shape, Counts, Agreed, NEW s \in Seq(Checks), Distinct(s),
         Elements(s) \cap Pending = {}, Add(s)
  PROVE  /\ Shape' /\ Counts' /\ Agreed'
         /\ Pending' = Pending \cup Elements(s)
         /\ fAllOk' = fAllOk /\ pc'[Master] = pc[Master] /\ verdict' = verdict
<1>1. /\ queue' = queue \o s /\ nTodo' = nTodo + Len(s)
      /\ UNCHANGED <<nIdle, nTotal, fAllOk, batch, fOk, verdict>>
  BY DEF Add
<1>2. PICK W \in SUBSET Waiting : pc' = Notified(W)
  <2>1. pc = Notified({})
    BY DEF Notified, Shape
  <2>2. \/ pc' = Notified({}) \/ pc' = Notified(Waiting) \/ pc' = pc
        \/ \E w \in Waiting : pc' = Notified({w})
    BY DEF Add
  <2> QED BY <2>1, <2>2
<1>3. /\ pc' \in [Threads -> {"out", "start", "wait", "woken", "work"}]
      /\ \A t \in Threads : pc'[t] = pc[t] \/ (pc[t] = "wait" /\ pc'[t] = "woken")
      /\ pc'[Master] = pc[Master]
  BY <1>2, QueueAssumption DEF Notified, Waiting, Threads, Shape
<1>4. queue \in Seq(Checks) /\ Elements(queue) = Queued /\ Distinct(queue)
  BY DEF Shape, Queued, Elements, Distinct
<1>5. /\ queue' \in Seq(Checks) /\ Len(queue') = Len(queue) + Len(s)
      /\ \A n \in 1..Len(queue) : queue'[n] = queue[n]
      /\ \A n \in 1..Len(s) : queue'[Len(queue) + n] = s[n]
  BY <1>1, <1>4
<1>6. \A n \in 1..Len(queue') : n \in 1..Len(queue) \/ \E m \in 1..Len(s) : n = Len(queue) + m
  <2> SUFFICES ASSUME NEW n \in 1..Len(queue'), n \notin 1..Len(queue)
               PROVE  n - Len(queue) \in 1..Len(s) /\ n = Len(queue) + (n - Len(queue))
    OBVIOUS
  <2> QED BY <1>4, <1>5
<1>7. Elements(queue') = Queued \cup Elements(s)
  <2>1. \A x : x \in Elements(queue') => x \in Elements(queue) \/ x \in Elements(s)
    <3> SUFFICES ASSUME NEW n \in 1..Len(queue')
                 PROVE  queue'[n] \in Elements(queue) \/ queue'[n] \in Elements(s)
      BY DEF Elements
    <3>1. CASE n \in 1..Len(queue)
      BY <1>5, <3>1 DEF Elements
    <3>2. ASSUME NEW m \in 1..Len(s), n = Len(queue) + m
          PROVE  queue'[n] \in Elements(s)
      BY <1>5, <3>2 DEF Elements
    <3> QED BY <1>6, <3>1, <3>2
  <2>2. \A x : x \in Elements(queue) => x \in Elements(queue')
    <3> SUFFICES ASSUME NEW n \in 1..Len(queue) PROVE queue[n] \in Elements(queue')
      BY DEF Elements
    <3>1. n \in 1..Len(queue') /\ queue'[n] = queue[n]
      BY <1>4, <1>5
    <3> QED BY <3>1 DEF Elements
  <2>3. \A x : x \in Elements(s) => x \in Elements(queue')
    <3> SUFFICES ASSUME NEW n \in 1..Len(s) PROVE s[n] \in Elements(queue')
      BY DEF Elements
    <3>1. Len(queue) + n \in 1..Len(queue') /\ queue'[Len(queue) + n] = s[n]
      BY <1>4, <1>5
    <3> QED BY <3>1 DEF Elements
  <2> QED BY <1>4, <2>1, <2>2, <2>3
<1>8. Distinct(queue')
  <2> SUFFICES ASSUME NEW m \in 1..Len(queue'), NEW n \in 1..Len(queue'), queue'[m] = queue'[n]
               PROVE  m = n
    BY DEF Distinct
  <2>1. Elements(queue) \cap Elements(s) = {}
    BY <1>4 DEF Pending
  <2>2. CASE m \in 1..Len(queue) /\ n \in 1..Len(queue)
    BY <1>4, <1>5, <2>2 DEF Distinct
  <2>3. ASSUME NEW i \in 1..Len(queue), NEW j \in 1..Len(s), queue'[i] = queue'[Len(queue) + j]
        PROVE  FALSE
    <3>1. queue[i] = s[j]
      BY <1>5, <2>3
    <3>2. queue[i] \in Elements(queue) /\ s[j] \in Elements(s)
      BY DEF Elements
    <3> QED BY <2>1, <3>1, <3>2
  <2>4. ASSUME NEW i \in 1..Len(s), NEW j \in 1..Len(s), m = Len(queue) + i, n = Len(queue) + j
        PROVE  m = n
    <3>1. s[i] = s[j]
      BY <1>5, <2>4
    <3> QED BY <2>4, <3>1 DEF Distinct
  <2> QED BY <1>6, <2>2, <2>3, <2>4
<1>9. Pending' = Pending \cup Elements(s)
  <2>1. Queued' = Queued \cup Elements(s)
    BY <1>7 DEF Queued, Elements
  <2> QED BY <1>1, <2>1 DEF Pending, Threads
<1>10. Shape'
  <2>1. \A t \in Threads : batch[t] \cap Elements(s) = {}
    BY DEF Pending
  <2>2. Queued' = Queued \cup Elements(s)
    BY <1>7 DEF Queued, Elements
  <2>3. \A m, n \in 1..Len(queue') : queue'[m] = queue'[n] => m = n
    BY <1>8 DEF Distinct
  <2>4. \A t \in Threads : batch'[t] \cap Queued' = {}
    BY <1>1, <2>1, <2>2 DEF Shape
  <2>5. \A t \in Threads : pc'[t] = "work" <=> batch'[t] # {}
    BY <1>1, <1>3 DEF Shape
  <2> QED BY <1>1, <1>3, <1>5, <2>3, <2>4, <2>5 DEF Shape, Threads
<1>11. Counts'
  <2>1. IsFiniteSet(Elements(s)) /\ Cardinality(Elements(s)) = Len(s)
    BY DistinctCount
  <2>2. IsFiniteSet(Pending \cup Elements(s)) /\ Pending \cap Elements(s) = {}
    BY <2>1, FS_Union DEF Counts
  <2>3. Cardinality(Pending \cup Elements(s)) = Cardinality(Pending) + Len(s)
    <3>1. Cardinality({}) = 0
      BY FS_EmptySet
    <3>2. Cardinality(Pending) \in Nat /\ Len(s) \in Nat
      BY FS_CardinalityType DEF Counts
    <3>3. Cardinality(Pending \cup Elements(s)) =
             Cardinality(Pending) + Cardinality(Elements(s)) - Cardinality(Pending \cap Elements(s))
      BY <2>1, FS_Union DEF Counts
    <3>4. Cardinality(Pending \cap Elements(s)) = 0
      BY <2>2, <3>1
    <3> QED BY <2>1, <3>2, <3>3, <3>4
  <2>4. InLoop' = InLoop /\ AtWait' = AtWait
    BY <1>3 DEF InLoop, AtWait, Threads
  <2> QED BY <1>1, <1>9, <2>2, <2>3, <2>4 DEF Counts
<1>12. Agreed'
  BY <1>1, <1>3 DEF Agreed, Threads
<1> QED BY <1>1, <1>3, <1>9, <1>10, <1>11, <1>12
=============================================================================

----------------------------- MODULE CheckQueue -----------------------------
(***************************************************************************)
(* CCheckQueue (checkqueue.h): script checks that one master thread hands  *)
(* to a pool of workers and then helps to finish.  All of Loop between two *)
(* executions of a batch is one critical section, hence one action.  The   *)
(* checks of a batch run outside the lock on data of their own, so running *)
(* them is part of the step that reports their result.  fQuit is never set *)
(* and is left out.                                                        *)
(***************************************************************************)
EXTENDS Integers, Sequences, FiniteSets

CONSTANTS
    Checks,             \* the script checks there are
    Good,               \* those whose operator() returns true
    Workers, Master,    \* the threads
    nBatchSize

ASSUME QueueAssumption ==
    /\ Good \subseteq Checks
    /\ IsFiniteSet(Workers) /\ Master \notin Workers
    /\ nBatchSize \in Nat \ {0}

VARIABLES
    queue,              \* a stack: checks are added and taken at its end
    nIdle, nTotal, nTodo, fAllOk,
    pc,                 \* "out" of Loop, about to "start" it, in a "wait" for
                        \* the condition, "woken" from it, or at "work"
    batch, fOk,         \* vChecks, and fOk as it was when they were taken
    verdict             \* what the last Wait() returned

counters == <<nIdle, nTotal, nTodo, fAllOk>>
queueVars == <<queue, counters, pc, batch, fOk, verdict>>
Threads == Workers \cup {Master}

QueueInit ==
    /\ queue = << >>
    /\ nIdle = 0 /\ nTotal = 0 /\ nTodo = 0 /\ fAllOk = TRUE
    /\ pc = [t \in Threads |-> IF t = Master THEN "out" ELSE "start"]
    /\ batch = [t \in Threads |-> {}]
    /\ fOk = [t \in Threads |-> TRUE]
    /\ verdict = TRUE

-----------------------------------------------------------------------------
\* nNow: how many checks a thread takes.
Share(total, idle) ==
    LET share == Len(queue) \div (total + idle + 1)
    IN  IF share < 1 THEN 1 ELSE IF share > nBatchSize THEN nBatchSize ELSE share

\* The rest of a critical section of Loop, from the test of the queue on, with
\* the values that the first part of the section has left.
Take(t, p, total, idle, todo, ok) ==
    /\ queue # << >>
    /\ LET left == Len(queue) - Share(total, idle)
       IN  /\ queue' = SubSeq(queue, 1, left)
           /\ batch' = [batch EXCEPT ![t] = {queue[n] : n \in (left + 1)..Len(queue)}]
    /\ fOk' = [fOk EXCEPT ![t] = ok]
    /\ pc' = [p EXCEPT ![t] = "work"]
    /\ nTotal' = total /\ nIdle' = idle /\ nTodo' = todo /\ fAllOk' = ok
    /\ UNCHANGED verdict

\* Mutant of Return: a failure is kept for the next block.
ReturnWithoutReset(t, p, total, idle, todo, ok) ==
    /\ queue = << >> /\ t = Master /\ todo = 0
    /\ verdict' = ok
    /\ pc' = [p EXCEPT ![t] = "out"]
    /\ nTotal' = total - 1 /\ nIdle' = idle /\ nTodo' = todo /\ fAllOk' = ok
    /\ batch' = [batch EXCEPT ![t] = {}] /\ fOk' = [fOk EXCEPT ![t] = TRUE]
    /\ UNCHANGED queue

Return(t, p, total, idle, todo, ok) ==
    /\ queue = << >> /\ t = Master /\ todo = 0
    /\ verdict' = ok
    /\ pc' = [p EXCEPT ![t] = "out"]
    /\ nTotal' = total - 1 /\ nIdle' = idle /\ nTodo' = todo /\ fAllOk' = TRUE
    /\ batch' = [batch EXCEPT ![t] = {}] /\ fOk' = [fOk EXCEPT ![t] = TRUE]
    /\ UNCHANGED queue

Sleep(t, p, total, idle, todo, ok) ==
    /\ queue = << >> /\ ~(t = Master /\ todo = 0)
    /\ pc' = [p EXCEPT ![t] = "wait"]
    /\ nTotal' = total /\ nIdle' = idle + 1 /\ nTodo' = todo /\ fAllOk' = ok
    /\ batch' = [batch EXCEPT ![t] = {}] /\ fOk' = [fOk EXCEPT ![t] = TRUE]
    /\ UNCHANGED <<queue, verdict>>

Proceed(t, p, total, idle, todo, ok) ==
    \/ Take(t, p, total, idle, todo, ok)
    \/ Return(t, p, total, idle, todo, ok)
    \/ Sleep(t, p, total, idle, todo, ok)

\* The first iteration.
Start(t) ==
    /\ pc[t] = "start"
    /\ Proceed(t, pc, nTotal + 1, nIdle, nTodo, fAllOk)

\* Mutants of Finish: the last result overwrites those before it; the master
\* is not woken.
FinishOverwriting(t) ==
    LET todo == nTodo - Cardinality(batch[t])
        wake == todo = 0 /\ t # Master /\ pc[Master] = "wait"
        p    == IF wake THEN [pc EXCEPT ![Master] = "woken"] ELSE pc
    IN  /\ pc[t] = "work"
        /\ Proceed(t, p, nTotal, nIdle, todo, fOk[t] /\ batch[t] \subseteq Good)
FinishSilently(t) ==
    /\ pc[t] = "work"
    /\ Proceed(t, pc, nTotal, nIdle, nTodo - Cardinality(batch[t]),
               fAllOk /\ fOk[t] /\ batch[t] \subseteq Good)

\* The end of a batch, and the clean-up after it.  A worker that has finished
\* the last check wakes the master.
Finish(t) ==
    LET todo == nTodo - Cardinality(batch[t])
        wake == todo = 0 /\ t # Master /\ pc[Master] = "wait"
        p    == IF wake THEN [pc EXCEPT ![Master] = "woken"] ELSE pc
    IN  /\ pc[t] = "work"
        /\ Proceed(t, p, nTotal, nIdle, todo, fAllOk /\ fOk[t] /\ batch[t] \subseteq Good)

\* Mutant of Resume: the thread stays counted as idle.
ResumeIdle(t) ==
    /\ pc[t] = "woken"
    /\ Proceed(t, pc, nTotal, nIdle, nTodo, fAllOk)

\* The return of cond.wait, after a notification or spuriously.
Resume(t) ==
    /\ pc[t] = "woken"
    /\ Proceed(t, pc, nTotal, nIdle - 1, nTodo, fAllOk)
WakeSpuriously(t) ==
    /\ pc[t] = "wait"
    /\ Proceed(t, pc, nTotal, nIdle - 1, nTodo, fAllOk)

ThreadStep(t) == Start(t) \/ Finish(t) \/ Resume(t)
QueueStep(t) == ThreadStep(t) \/ WakeSpuriously(t)

-----------------------------------------------------------------------------
\* CCheckQueue::Add: notify_one for one check, notify_all for several.
Waiting == {w \in Workers : pc[w] = "wait"}
Notified(W) == [t \in Threads |-> IF t \in W THEN "woken" ELSE pc[t]]
Add(vChecks) ==
    /\ queue' = queue \o vChecks
    /\ nTodo' = nTodo + Len(vChecks)
    /\ \/ /\ Len(vChecks) # 1
          /\ pc' = Notified(IF Len(vChecks) = 0 THEN {} ELSE Waiting)
       \/ /\ Len(vChecks) = 1
          /\ \/ Waiting = {} /\ pc' = pc
             \/ \E w \in Waiting : pc' = Notified({w})
    /\ UNCHANGED <<nIdle, nTotal, fAllOk, batch, fOk, verdict>>

\* The master calls Wait().
CallWait ==
    /\ pc[Master] = "out"
    /\ pc' = [pc EXCEPT ![Master] = "start"]
    /\ UNCHANGED <<queue, counters, batch, fOk, verdict>>

\* CCheckQueue::IsIdle, which the constructor of CCheckQueueControl asserts.
IsIdle == nTotal = nIdle /\ nTodo = 0 /\ fAllOk

\* The checks that have been added and not yet been reported.
Queued == {queue[n] : n \in 1..Len(queue)}
Pending == Queued \cup UNION {batch[t] : t \in Threads}
=============================================================================

----------------------- MODULE BitmapSchedulerProofs -------------------------
(***************************************************************************)
(* For any number of threads, task ids and priorities and any interleaving *)
(* of the calls, the bitmap scheduler loses no ready task.                 *)
(***************************************************************************)
EXTENDS BitmapScheduler, SequenceTheorems, TLAPS

(* The queues hold task ids: removing an element of a sequence at one of   *)
(* its positions (VecDeque::remove in dequeue) leaves a sequence over the  *)
(* same set.                                                               *)
LEMMA RemoveAtType ==
  ASSUME NEW S, NEW s \in Seq(S), NEW i \in DOMAIN s
  PROVE  RemoveAt(s, i) \in Seq(S)
<1>1. i \in 1 .. Len(s)
  OBVIOUS
<1>2. SubSeq(s, 1, i - 1) \in Seq(S)
  BY <1>1, SubSeqProperties
<1>3. SubSeq(s, i + 1, Len(s)) \in Seq(S)
  BY <1>1, SubSeqProperties
<1> QED
  BY <1>2, <1>3, ConcatProperties DEF RemoveAt

LEMMA AppendNonEmpty ==
  ASSUME NEW S, NEW s \in Seq(S), NEW e \in S
  PROVE  Append(s, e) # <<>>
BY AppendProperties

(* Type correctness: every step of every call keeps the scheduler's state  *)
(* and the callers' locals in their types; in particular a scan of the     *)
(* queues (dequeue, yield_task) never runs past the last one.              *)
THEOREM TypeCorrect == Spec => []TypeOK
<1> USE NPrioAssumption
<1>1. Init => TypeOK
  <2> SUFFICES ASSUME Init PROVE TypeOK
    OBVIOUS
  <2>1. 0 \in Prio
    BY DEF Prio
  <2> QED
    BY <2>1 DEF Init, TypeOK, Steps
<1>2. TypeOK /\ [Next]_vars => TypeOK'
  <2> SUFFICES ASSUME TypeOK, [Next]_vars PROVE TypeOK'
    OBVIOUS
  <2> USE DEF TypeOK
  <2>a. alone' \in BOOLEAN
    BY DEF Next, vars
  <2> USE <2>a
  <2>0. 0 \in Prio
    BY DEF Prio
  <2>1. CASE UNCHANGED vars
    BY <2>1 DEF vars
  <2>2. ASSUME NEW t \in Threads, NEW id \in TaskIds, NEW p \in Prio,
               EnqueuePush(t, id, p)
        PROVE TypeOK'
    BY <2>2 DEF EnqueuePush, Begin, Goto, Steps, stats
  <2>3. ASSUME NEW t \in Threads, NEW id \in TaskIds, DequeueBegin(t, id)
        PROVE TypeOK'
    BY <2>0, <2>3 DEF DequeueBegin, Begin, Goto, Steps, stats
  <2>4. ASSUME NEW t \in Threads, PickNone(t) PROVE TypeOK'
    BY <2>4 DEF PickNone, Begin, stats, locals
  <2>5. ASSUME NEW t \in Threads, PickLoad(t) PROVE TypeOK'
    BY <2>5 DEF PickLoad, Begin, Goto, Steps, stats
  <2>6. ASSUME NEW t \in Threads, NEW id \in TaskIds \cup {0}, SetCurrent(t, id)
        PROVE TypeOK'
    BY <2>6 DEF SetCurrent, Begin, stats, locals
  <2>7. ASSUME NEW t \in Threads, YieldNone(t) PROVE TypeOK'
    BY <2>7 DEF YieldNone, Begin, stats, locals
  <2>8. ASSUME NEW t \in Threads, YieldBegin(t) PROVE TypeOK'
    BY <2>0, <2>8 DEF YieldBegin, Begin, Goto, Steps, stats
  <2>9. ASSUME NEW t \in Threads, EnqueueSetBit(t) PROVE TypeOK'
    BY <2>9 DEF EnqueueSetBit, Goto, Steps, stats, locals
  <2>10. ASSUME NEW t \in Threads, DequeueMiss(t) PROVE TypeOK'
    BY <2>10 DEF DequeueMiss, ScanNext, Goto, Steps, stats
  <2>11. ASSUME NEW t \in Threads, DequeueRemove(t) PROVE TypeOK'
    <3>1. PICK i \in DOMAIN queue[prio[t]] :
            queue' = [queue EXCEPT ![prio[t]] = RemoveAt(@, i)]
      BY <2>11 DEF DequeueRemove
    <3>2. RemoveAt(queue[prio[t]], i) \in Seq(TaskIds)
      BY RemoveAtType
    <3>3. queue' \in [Prio -> Seq(TaskIds)]
      BY <3>1, <3>2
    <3>4. /\ UNCHANGED <<bitmap, current, stats, locals, ops>>
          /\ \/ lock' = [lock EXCEPT ![prio[t]] = t] /\ Goto(t, "dequeue_clear")
             \/ UNCHANGED lock /\ Goto(t, "idle")
      BY <2>11 DEF DequeueRemove
    <3> QED
      BY <3>3, <3>4 DEF Goto, Steps, stats, locals
  <2>12. ASSUME NEW t \in Threads, DequeueClearBit(t) PROVE TypeOK'
    BY <2>12 DEF DequeueClearBit, Goto, Steps, stats, locals
  <2>13. ASSUME NEW t \in Threads, PickEmpty(t) PROVE TypeOK'
    BY <2>13 DEF PickEmpty, Goto, Steps, stats, locals
  <2>14. ASSUME NEW t \in Threads, PickPop(t) PROVE TypeOK'
    BY <2>14 DEF PickPop, Goto, Steps, stats
  <2>15. ASSUME NEW t \in Threads, PickClearBit(t) PROVE TypeOK'
    BY <2>15 DEF PickClearBit, Goto, Steps, stats, locals
  <2>16. ASSUME NEW t \in Threads, PickCount(t) PROVE TypeOK'
    BY <2>16 DEF PickCount, Goto, Steps, locals
  <2>17. ASSUME NEW t \in Threads, PickSwitch(t) PROVE TypeOK'
    BY <2>17 DEF PickSwitch, Goto, Steps, locals
  <2>18. ASSUME NEW t \in Threads, YieldFound(t) PROVE TypeOK'
    BY <2>18 DEF YieldFound, Goto, Steps, stats, locals
  <2>19. ASSUME NEW t \in Threads, YieldMiss(t) PROVE TypeOK'
    BY <2>19 DEF YieldMiss, ScanNext, Goto, Steps, stats
  <2>20. ASSUME NEW t \in Threads, YieldClear(t) PROVE TypeOK'
    BY <2>20 DEF YieldClear, Goto, Steps, stats, locals
  <2> QED
    BY <2>1, <2>2, <2>3, <2>4, <2>5, <2>6, <2>7, <2>8, <2>9, <2>10, <2>11,
       <2>12, <2>13, <2>14, <2>15, <2>16, <2>17, <2>18, <2>19, <2>20
    DEF Next, Call, Continue
<1> QED
  BY <1>1, <1>2, PTL DEF Spec

(* The inductive argument.  An enqueue makes a queue non-empty only while  *)
(* the queue's lock is free, so while a thread is between emptying a queue *)
(* and clearing its bit (LockHeld: it has the lock) the queue stays empty  *)
(* (ClearsEmptyQueue), and the bit it clears is not one that a ready task  *)
(* needs (NoLostTask).                                                     *)
LEMMA QueuesKept ==
  TypeOK' /\ IInv /\ [Next]_vars => LockHeld' /\ ClearsEmptyQueue' /\ NoLostTask'
<1> SUFFICES ASSUME TypeOK', IInv, [Next]_vars
             PROVE  LockHeld' /\ ClearsEmptyQueue' /\ NoLostTask'
  OBVIOUS
<1> USE ThreadsAssumption
     DEF IInv, TypeOK, LockHeld, ClearsEmptyQueue, NoLostTask, InLock,
         Enqueueing, At
<1> DEFINE Goal == LockHeld' /\ ClearsEmptyQueue' /\ NoLostTask'
<1>1. CASE UNCHANGED vars
  BY <1>1 DEF vars
<1>2. ASSUME NEW t \in Threads, NEW id \in TaskIds, NEW p \in Prio,
             EnqueuePush(t, id, p)
      PROVE Goal
  <2>1. LockHeld'
    BY <1>2 DEF EnqueuePush, Begin, Goto
  <2>2. ClearsEmptyQueue'
    BY <1>2 DEF EnqueuePush, Begin, Goto, Free
  <2>3. NoLostTask'
    BY <1>2 DEF EnqueuePush, Begin, Goto
  <2> QED BY <2>1, <2>2, <2>3
<1>3. ASSUME NEW t \in Threads, NEW id \in TaskIds, DequeueBegin(t, id)
      PROVE Goal
  BY <1>3 DEF DequeueBegin, Begin, Goto
<1>4. ASSUME NEW t \in Threads, PickNone(t) PROVE Goal
  BY <1>4 DEF PickNone, Begin, locals
<1>5. ASSUME NEW t \in Threads, PickLoad(t) PROVE Goal
  BY <1>5 DEF PickLoad, Begin, Goto
<1>6. ASSUME NEW t \in Threads, NEW id \in TaskIds \cup {0}, SetCurrent(t, id)
      PROVE Goal
  BY <1>6 DEF SetCurrent, Begin, locals
<1>7. ASSUME NEW t \in Threads, YieldNone(t) PROVE Goal
  BY <1>7 DEF YieldNone, Begin, locals
<1>8. ASSUME NEW t \in Threads, YieldBegin(t) PROVE Goal
  BY <1>8 DEF YieldBegin, Begin, Goto
<1>9. ASSUME NEW t \in Threads, EnqueueSetBit(t) PROVE Goal
  BY <1>9 DEF EnqueueSetBit, Goto, locals
<1>10. ASSUME NEW t \in Threads, DequeueMiss(t) PROVE Goal
  <2>1. /\ UNCHANGED <<bitmap, queue, lock>>
        /\ pc[t] = "dequeue_scan" /\ pc'[t] \in {"dequeue_scan", "idle"}
        /\ \A u \in Threads : u # t => pc'[u] = pc[u] /\ prio'[u] = prio[u]
    BY <1>10 DEF DequeueMiss, ScanNext, Goto
  <2>2. LockHeld'
    BY <2>1
  <2>3. ClearsEmptyQueue'
    <3> SUFFICES ASSUME NEW u \in Threads, pc'[u] \in {"dequeue_clear", "pick_clear"}
                 PROVE  queue'[prio'[u]] = <<>>
      OBVIOUS
    <3>1. u # t
      BY <2>1
    <3>2. pc[u] \in {"dequeue_clear", "pick_clear"} /\ prio'[u] = prio[u]
      BY <2>1, <3>1
    <3> QED BY <2>1, <3>2
  <2>4. NoLostTask'
    <3> SUFFICES ASSUME NEW p \in Prio, queue'[p] # <<>>
                 PROVE  p \in bitmap' \/ Enqueueing(p)'
      OBVIOUS
    <3>1. p \in bitmap \/ Enqueueing(p)
      BY <2>1
    <3>2. ASSUME NEW u \in Threads, pc[u] = "enqueue_set", prio[u] = p
          PROVE  pc'[u] = "enqueue_set" /\ prio'[u] = p
      <4>1. u # t
        BY <2>1, <3>2
      <4> QED
        BY <2>1, <3>2, <4>1
    <3> QED BY <2>1, <3>1, <3>2
  <2> QED BY <2>2, <2>3, <2>4
<1>11. ASSUME NEW t \in Threads, DequeueRemove(t) PROVE Goal
  <2>1. PICK i \in DOMAIN queue[prio[t]] :
          queue' = [queue EXCEPT ![prio[t]] = RemoveAt(@, i)]
    BY <1>11 DEF DequeueRemove
  <2>2. /\ At(t, "dequeue_scan") /\ Free(prio[t])
        /\ UNCHANGED <<bitmap, task, prio>>
        /\ \/ /\ queue'[prio[t]] = <<>>
              /\ lock' = [lock EXCEPT ![prio[t]] = t]
              /\ Goto(t, "dequeue_clear")
           \/ /\ queue'[prio[t]] # <<>>
              /\ UNCHANGED lock
              /\ Goto(t, "idle")
    BY <1>11 DEF DequeueRemove, locals
  <2>3. queue[prio[t]] # <<>>
    OBVIOUS
  <2>4. \A p \in Prio : p # prio[t] => queue'[p] = queue[p]
    BY <2>1
  <2>5. LockHeld'
    <3>1. ~InLock(t, prio[t]) /\ \A u \in Threads : ~InLock(u, prio[t])
      BY <2>2 DEF Free
    <3>2. CASE lock' = [lock EXCEPT ![prio[t]] = t] /\ Goto(t, "dequeue_clear")
      BY <2>2, <3>1, <3>2 DEF Goto
    <3>3. CASE UNCHANGED lock /\ Goto(t, "idle")
      BY <2>2, <3>1, <3>3 DEF Goto
    <3> QED BY <2>2, <3>2, <3>3
  <2>6. ClearsEmptyQueue'
    BY <2>2, <2>4 DEF Free, Goto
  <2>7. NoLostTask'
    BY <2>2, <2>3, <2>4 DEF Goto
  <2> QED BY <2>5, <2>6, <2>7
<1>12. ASSUME NEW t \in Threads, DequeueClearBit(t) PROVE Goal
  <2>1. LockHeld'
    BY <1>12 DEF DequeueClearBit, Goto, locals
  <2>2. ClearsEmptyQueue'
    BY <1>12 DEF DequeueClearBit, Goto, locals
  <2>3. NoLostTask'
    BY <1>12 DEF DequeueClearBit, Goto, locals
  <2> QED BY <2>1, <2>2, <2>3
<1>13. ASSUME NEW t \in Threads, PickEmpty(t) PROVE Goal
  BY <1>13 DEF PickEmpty, Goto, locals
<1>14. ASSUME NEW t \in Threads, PickPop(t) PROVE Goal
  <2>1. LockHeld'
    BY <1>14 DEF PickPop, Goto, Free
  <2>2. ClearsEmptyQueue'
    BY <1>14 DEF PickPop, Goto, Free
  <2>3. NoLostTask'
    BY <1>14 DEF PickPop, Goto
  <2> QED BY <2>1, <2>2, <2>3
<1>15. ASSUME NEW t \in Threads, PickClearBit(t) PROVE Goal
  <2>1. LockHeld'
    BY <1>15 DEF PickClearBit, Goto, locals
  <2>2. ClearsEmptyQueue' /\ NoLostTask'
    BY <1>15 DEF PickClearBit, Goto, locals
  <2> QED BY <2>1, <2>2
<1>16. ASSUME NEW t \in Threads, PickCount(t) PROVE Goal
  BY <1>16 DEF PickCount, Goto, locals
<1>17. ASSUME NEW t \in Threads, PickSwitch(t) PROVE Goal
  <2>1. LockHeld'
    BY <1>17 DEF PickSwitch, Goto, locals
  <2>2. ClearsEmptyQueue' /\ NoLostTask'
    BY <1>17 DEF PickSwitch, Goto, locals
  <2> QED BY <2>1, <2>2
<1>18. ASSUME NEW t \in Threads, YieldFound(t) PROVE Goal
  BY <1>18 DEF YieldFound, Goto, locals
<1>19. ASSUME NEW t \in Threads, YieldMiss(t) PROVE Goal
  <2>1. /\ UNCHANGED <<bitmap, queue, lock>>
        /\ pc[t] = "yield_scan" /\ pc'[t] \in {"yield_scan", "yield_clear"}
        /\ \A u \in Threads : u # t => pc'[u] = pc[u] /\ prio'[u] = prio[u]
    BY <1>19 DEF YieldMiss, ScanNext, Goto
  <2>2. LockHeld'
    BY <2>1
  <2>3. ClearsEmptyQueue'
    <3> SUFFICES ASSUME NEW u \in Threads, pc'[u] \in {"dequeue_clear", "pick_clear"}
                 PROVE  queue'[prio'[u]] = <<>>
      OBVIOUS
    <3>1. u # t
      BY <2>1
    <3>2. pc[u] \in {"dequeue_clear", "pick_clear"} /\ prio'[u] = prio[u]
      BY <2>1, <3>1
    <3> QED BY <2>1, <3>2
  <2>4. NoLostTask'
    <3> SUFFICES ASSUME NEW p \in Prio, queue'[p] # <<>>
                 PROVE  p \in bitmap' \/ Enqueueing(p)'
      OBVIOUS
    <3>1. p \in bitmap \/ Enqueueing(p)
      BY <2>1
    <3>2. ASSUME NEW u \in Threads, pc[u] = "enqueue_set", prio[u] = p
          PROVE  pc'[u] = "enqueue_set" /\ prio'[u] = p
      <4>1. u # t
        BY <2>1, <3>2
      <4> QED
        BY <2>1, <3>2, <4>1
    <3> QED BY <2>1, <3>1, <3>2
  <2> QED BY <2>2, <2>3, <2>4
<1>20. ASSUME NEW t \in Threads, YieldClear(t) PROVE Goal
  BY <1>20 DEF YieldClear, Goto, locals
<1> QED
  BY <1>1, <1>2, <1>3, <1>4, <1>5, <1>6, <1>7, <1>8, <1>9, <1>10, <1>11,
     <1>12, <1>13, <1>14, <1>15, <1>16, <1>17, <1>18, <1>19, <1>20
  DEF Next, Call, Continue

(* One CPU: while a call is under way no other is. *)
LEMMA ContinueAlone ==
  ASSUME IInv, alone, NEW t \in Threads, ~At(t, "idle"), NEW step, Goto(t, step)
  PROVE  /\ pc'[t] = step
         /\ \A u \in Threads : u # t => pc[u] = "idle" /\ pc'[u] = "idle"
         /\ \A u, v \in Threads : ~At(u, "idle")' /\ ~At(v, "idle")' => u = v
BY DEF IInv, OneCall, TypeOK, At, Goto

(* A scan of the queues changes none and leaves the bits alone. *)
LEMMA ScanAlone ==
  ASSUME IInv, alone, NEW t \in Threads, pc[t] \in {"dequeue_scan", "yield_scan"},
         NEW step \in {"dequeue_scan", "yield_scan", "yield_clear", "idle"}, Goto(t, step),
         UNCHANGED <<bitmap, queue>>
  PROVE  OneCall'
<1>1. /\ pc'[t] = step
      /\ \A u \in Threads : u # t => pc[u] = "idle" /\ pc'[u] = "idle"
      /\ \A u, v \in Threads : ~At(u, "idle")' /\ ~At(v, "idle")' => u = v
  BY ContinueAlone DEF At
<1>2. \A u \in Threads :
        /\ pc[u] \in {"dequeue_scan", "yield_scan", "idle"}
        /\ pc'[u] \in {"dequeue_scan", "yield_scan", "yield_clear", "idle"}
  BY <1>1
<1>3. \A p \in Prio : ~BitLags(p)
  BY <1>2 DEF BitLags
<1>4. \A p \in Prio : p \in bitmap' <=> queue'[p] # <<>>
  BY <1>3 DEF IInv, OneCall
<1> QED
  BY <1>1, <1>2, <1>4 DEF OneCall, BitLags, PicksHighest, At

(* One CPU: a call that begins finds the others idle and the bits exact;   *)
(* its later steps change the one bit and the one queue that they hold.    *)
LEMMA AloneStep ==
  ASSUME IInv, TypeOK', [Next]_vars, alone
  PROVE  OneCall'
<1>0. \A p \in Prio, id \in TaskIds : Append(queue[p], id) # <<>>
  BY AppendNonEmpty DEF IInv, TypeOK
<1> USE DEF IInv, OneCall, TypeOK, BitLags, PicksHighest, At
<1>1. CASE UNCHANGED vars
  BY <1>1 DEF vars
<1>2. ASSUME NEW t \in Threads, NEW id \in TaskIds, NEW p \in Prio, EnqueuePush(t, id, p) PROVE OneCall'
  <2>1. /\ \A u \in Threads : pc[u] = "idle"
        /\ pc' = [pc EXCEPT ![t] = "enqueue_set"] /\ prio' = [prio EXCEPT ![t] = p]
        /\ queue' = [queue EXCEPT ![p] = Append(@, id)] /\ UNCHANGED bitmap
    BY <1>2 DEF EnqueuePush, Begin, AtRest, Goto
  <2>2. /\ queue'[p] # <<>>
        /\ \A q \in Prio : q # p => queue'[q] = queue[q]
    BY <1>0, <2>1
  <2>3. \A q \in Prio : q \in bitmap <=> queue[q] # <<>>
    BY <2>1
  <2>4. BitLags(p)'
    BY <2>1
  <2> QED BY <2>1, <2>2, <2>3, <2>4
<1>3. ASSUME NEW t \in Threads, NEW id \in TaskIds, DequeueBegin(t, id) PROVE OneCall'
  BY <1>3 DEF DequeueBegin, Begin, AtRest, Goto
<1>4. ASSUME NEW t \in Threads, PickNone(t) PROVE OneCall'
  BY <1>4 DEF PickNone, Begin, AtRest, locals
<1>5. ASSUME NEW t \in Threads, PickLoad(t) PROVE OneCall'
  <2>1. /\ pc' = [pc EXCEPT ![t] = "pick_lock"] /\ \A u \in Threads : pc[u] = "idle"
        /\ UNCHANGED <<bitmap, queue>>
    BY <1>5 DEF PickLoad, Begin, AtRest, Goto
  <2>2. PICK p \in bitmap : IsLowestBit(bitmap, p) /\ prio' = [prio EXCEPT ![t] = p]
    BY <1>5 DEF PickLoad
  <2>3. \A q \in Prio : q \in bitmap <=> queue[q] # <<>>
    BY <2>1
  <2>4. PicksHighest'
    BY <2>1, <2>2, <2>3 DEF IsLowestBit, Prio
  <2> QED BY <2>1, <2>3, <2>4
<1>6. ASSUME NEW t \in Threads, NEW id \in TaskIds \cup {0}, SetCurrent(t, id) PROVE OneCall'
  BY <1>6 DEF SetCurrent, Begin, AtRest, locals
<1>7. ASSUME NEW t \in Threads, YieldNone(t) PROVE OneCall'
  BY <1>7 DEF YieldNone, Begin, AtRest, locals
<1>8. ASSUME NEW t \in Threads, YieldBegin(t) PROVE OneCall'
  BY <1>8 DEF YieldBegin, Begin, AtRest, Goto
<1>9. ASSUME NEW t \in Threads, EnqueueSetBit(t) PROVE OneCall'
  <2>1. /\ pc[t] = "enqueue_set" /\ Goto(t, "idle")
        /\ bitmap' = bitmap \cup {prio[t]}
        /\ UNCHANGED <<queue, prio>>
    BY <1>9 DEF EnqueueSetBit, locals
  <2>2. /\ pc'[t] = "idle"
        /\ \A u \in Threads : u # t => pc[u] = "idle" /\ pc'[u] = "idle"
    BY <2>1, ContinueAlone
  <2>3. queue[prio[t]] # <<>> /\ \A p \in Prio : p # prio[t] => ~BitLags(p)
    BY <2>1, <2>2
  <2>4. \A p \in Prio : p \in bitmap' <=> queue'[p] # <<>>
    BY <2>1, <2>3
  <2> QED BY <2>1, <2>2, <2>4
<1>10. ASSUME NEW t \in Threads, DequeueMiss(t) PROVE OneCall'
  <2>1. /\ pc[t] = "dequeue_scan" /\ UNCHANGED <<bitmap, queue>>
        /\ Goto(t, "dequeue_scan") \/ Goto(t, "idle")
    BY <1>10 DEF DequeueMiss, ScanNext
  <2> QED BY <2>1, ScanAlone
<1>11. ASSUME NEW t \in Threads, DequeueRemove(t) PROVE OneCall'
  <2>1. /\ pc[t] = "dequeue_scan" /\ UNCHANGED <<bitmap, prio>>
        /\ \/ queue'[prio[t]] = <<>> /\ Goto(t, "dequeue_clear")
           \/ queue'[prio[t]] # <<>> /\ Goto(t, "idle")
    BY <1>11 DEF DequeueRemove, locals
  <2>2. PICK i \in DOMAIN queue[prio[t]] :
          queue' = [queue EXCEPT ![prio[t]] = RemoveAt(@, i)]
    BY <1>11 DEF DequeueRemove
  <2>3. /\ pc'[t] \in {"dequeue_clear", "idle"}
        /\ \A u \in Threads : u # t => pc[u] = "idle" /\ pc'[u] = "idle"
        /\ \A u, v \in Threads : ~At(u, "idle")' /\ ~At(v, "idle")' => u = v
    BY <2>1, ContinueAlone
  <2>4. queue[prio[t]] # <<>> /\ \A p \in Prio : p # prio[t] => queue'[p] = queue[p]
    BY <2>2
  <2>5. \A p \in Prio : p \in bitmap <=> queue[p] # <<>>
    BY <2>1, <2>3
  <2>6. \A p \in Prio : p # prio[t] => (p \in bitmap' <=> queue'[p] # <<>>)
    BY <2>1, <2>4, <2>5
  <2>7. BitLags(prio[t])' \/ (prio[t] \in bitmap' <=> queue'[prio[t]] # <<>>)
    <3>1. CASE queue'[prio[t]] = <<>> /\ Goto(t, "dequeue_clear")
      BY <2>1, <3>1 DEF Goto
    <3>2. CASE queue'[prio[t]] # <<>> /\ Goto(t, "idle")
      BY <2>1, <2>4, <2>5, <3>2
    <3> QED BY <2>1, <3>1, <3>2
  <2> QED BY <2>1, <2>3, <2>6, <2>7
<1>12. ASSUME NEW t \in Threads, DequeueClearBit(t) PROVE OneCall'
  <2>1. /\ pc[t] = "dequeue_clear" /\ Goto(t, "idle")
        /\ bitmap' = bitmap \ {prio[t]}
        /\ UNCHANGED <<queue, prio>>
    BY <1>12 DEF DequeueClearBit, locals
  <2>2. /\ pc'[t] = "idle"
        /\ \A u \in Threads : u # t => pc[u] = "idle" /\ pc'[u] = "idle"
        /\ \A u, v \in Threads : ~At(u, "idle")' /\ ~At(v, "idle")' => u = v
    BY <2>1, ContinueAlone
  <2>3. queue[prio[t]] = <<>> /\ \A p \in Prio : p # prio[t] => ~BitLags(p)
    BY <2>1, <2>2 DEF ClearsEmptyQueue
  <2>4. \A p \in Prio : p \in bitmap' <=> queue'[p] # <<>>
    BY <2>1, <2>3
  <2> QED BY <2>1, <2>2, <2>4
<1>13. ASSUME NEW t \in Threads, PickEmpty(t) PROVE OneCall'
  BY <1>13 DEF PickEmpty, Goto, locals
<1>14. ASSUME NEW t \in Threads, PickPop(t) PROVE OneCall'
  <2>1. /\ pc[t] = "pick_lock" /\ queue[prio[t]] # <<>>
        /\ queue' = [queue EXCEPT ![prio[t]] = Tail(@)]
        /\ Goto(t, IF Tail(queue[prio[t]]) = <<>> THEN "pick_clear" ELSE "pick_count")
        /\ UNCHANGED <<bitmap, prio>>
    BY <1>14 DEF PickPop
  <2>2. /\ pc'[t] = IF Tail(queue[prio[t]]) = <<>> THEN "pick_clear" ELSE "pick_count"
        /\ \A u \in Threads : u # t => pc[u] = "idle" /\ pc'[u] = "idle"
        /\ \A u, v \in Threads : ~At(u, "idle")' /\ ~At(v, "idle")' => u = v
    BY <2>1, ContinueAlone
  <2>3. \A p \in Prio : p \in bitmap <=> queue[p] # <<>>
    BY <2>1, <2>2
  <2>4. prio[t] \in Prio
    OBVIOUS
  <2>5. ASSUME NEW p \in Prio PROVE BitLags(p)' \/ (p \in bitmap' <=> queue'[p] # <<>>)
    <3>1. CASE p # prio[t]
      <4>1. queue'[p] = queue[p]
        BY <2>1, <3>1
      <4> QED BY <2>1, <2>3, <4>1
    <3>2. CASE p = prio[t] /\ Tail(queue[p]) = <<>>
      BY <2>1, <2>2, <3>2
    <3>3. CASE p = prio[t] /\ Tail(queue[p]) # <<>>
      <4>1. queue'[p] = Tail(queue[p])
        BY <2>1, <3>3
      <4> QED BY <2>1, <2>3, <3>3, <4>1
    <3> QED BY <3>1, <3>2, <3>3
  <2>6. \A u \in Threads : pc'[u] \in {"pick_clear", "pick_count", "idle"}
    BY <2>2
  <2>7. (\A u \in Threads : pc[u] = "enqueue_set" => queue[prio[u]] # <<>>)'
        /\ PicksHighest'
    BY <2>6
  <2> QED BY <2>2, <2>5, <2>7
<1>15. ASSUME NEW t \in Threads, PickClearBit(t) PROVE OneCall'
  <2>1. /\ pc[t] = "pick_clear" /\ Goto(t, "pick_count")
        /\ bitmap' = bitmap \ {prio[t]}
        /\ UNCHANGED <<queue, prio>>
    BY <1>15 DEF PickClearBit, locals
  <2>2. /\ pc'[t] = "pick_count"
        /\ \A u \in Threads : u # t => pc[u] = "idle" /\ pc'[u] = "idle"
        /\ \A u, v \in Threads : ~At(u, "idle")' /\ ~At(v, "idle")' => u = v
    BY <2>1, ContinueAlone
  <2>3. queue[prio[t]] = <<>> /\ \A p \in Prio : p # prio[t] => ~BitLags(p)
    BY <2>1, <2>2 DEF ClearsEmptyQueue
  <2>4. \A p \in Prio : p \in bitmap' <=> queue'[p] # <<>>
    BY <2>1, <2>3
  <2> QED BY <2>1, <2>2, <2>4
<1>16. ASSUME NEW t \in Threads, PickCount(t) PROVE OneCall'
  BY <1>16 DEF PickCount, Goto, locals
<1>17. ASSUME NEW t \in Threads, PickSwitch(t) PROVE OneCall'
  BY <1>17 DEF PickSwitch, Goto, locals
<1>18. ASSUME NEW t \in Threads, YieldFound(t) PROVE OneCall'
  BY <1>18 DEF YieldFound, Goto, locals
<1>19. ASSUME NEW t \in Threads, YieldMiss(t) PROVE OneCall'
  <2>1. /\ pc[t] = "yield_scan" /\ UNCHANGED <<bitmap, queue>>
        /\ Goto(t, "yield_scan") \/ Goto(t, "yield_clear")
    BY <1>19 DEF YieldMiss, ScanNext
  <2> QED BY <2>1, ScanAlone
<1>20. ASSUME NEW t \in Threads, YieldClear(t) PROVE OneCall'
  BY <1>20 DEF YieldClear, Goto, locals
<1> QED
  BY <1>1, <1>2, <1>3, <1>4, <1>5, <1>6, <1>7, <1>8, <1>9, <1>10, <1>11,
     <1>12, <1>13, <1>14, <1>15, <1>16, <1>17, <1>18, <1>19, <1>20
  DEF Next, Call, Continue

LEMMA InitIInv == Init => IInv
<1>1. 0 \in Prio
  BY NPrioAssumption DEF Prio
<1>2. Init => TypeOK
  BY <1>1 DEF Init, TypeOK, Steps
<1>3. Init => LockHeld /\ ClearsEmptyQueue /\ NoLostTask
  BY ThreadsAssumption DEF Init, LockHeld, ClearsEmptyQueue, NoLostTask, InLock
<1>4. Init => OneCall
  BY DEF Init, OneCall, PicksHighest, At
<1> QED BY <1>2, <1>3, <1>4 DEF IInv

(* The inductive invariant that the run checks, for all instances, however *)
(* enqueue, dequeue and pick_next interleave: a queue's lock is held just  *)
(* by the thread between taking a task and returning, who is about to      *)
(* clear a bit has that queue locked and empty, and a queue with a task    *)
(* has its bit set or an enqueue about to set it.  If calls never overlap  *)
(* only the bit that the call is about to set or clear differs from its    *)
(* queue; with several a pick may leave a bit set for an empty queue.      *)
THEOREM InvariantHolds == Spec => []IInv
<1>1. TypeOK' /\ IInv /\ [Next]_vars => IInv'
  <2> SUFFICES ASSUME TypeOK', IInv, [Next]_vars PROVE IInv'
    OBVIOUS
  <2>1. alone' = alone
    BY DEF Next, vars
  <2> QED BY <2>1, QueuesKept, AloneStep DEF IInv
<1> QED BY <1>1, InitIInv, TypeCorrect, PTL DEF Spec

(* No ready task is lost: in every reachable state a non-empty queue has   *)
(* its bit set or an enqueue that is about to set it.                      *)
THEOREM NeverLosesTask == Spec => []NoLostTask
<1>1. IInv => NoLostTask
  BY DEF IInv
<1> QED BY <1>1, InvariantHolds, PTL

(* Called by one CPU only, the bitmap says between calls exactly which     *)
(* queues hold tasks, and pick_next serves the highest priority.           *)
THEOREM ExactForOneCpu == Spec => []ExactAlone
<1>1. IInv => ExactAlone
  <2> SUFFICES ASSUME IInv, alone PROVE BitmapExact /\ PicksHighest
    BY DEF ExactAlone
  <2>1. ASSUME AtRest PROVE bitmap = {p \in Prio : queue[p] # <<>>}
    BY <2>1 DEF IInv, TypeOK, OneCall, BitLags, AtRest, At
  <2> QED BY <2>1 DEF IInv, OneCall, BitmapExact
<1> QED BY <1>1, InvariantHolds, PTL

=============================================================================

--------------------------- MODULE BitmapScheduler ---------------------------
(***************************************************************************)
(* The priority bitmap scheduler, kernel/src/bitmap_scheduler/scheduler.rs.*)
(*                                                                         *)
(* BITMAP_SCHEDULER is a plain static whose methods take &self: there is   *)
(* no lock around it, every queue has its own spin lock and the bitmap is  *)
(* an atomic word.  A call is therefore a sequence of steps of its thread, *)
(* one for each lock section or atomic access, and the steps of different  *)
(* threads interleave.  pc[t] names the next step of t's call, task[t] and *)
(* prio[t] are its local variables.  In half of the behaviours the calls   *)
(* are made one after the other, as by a single CPU: `alone' is chosen at  *)
(* the start and never changes.                                            *)
(***************************************************************************)
EXTENDS Integers, FiniteSets, Sequences, SequencesExt

CONSTANTS
  Threads,   \* the CPUs or contexts that call the scheduler
  TaskIds,   \* the task ids the callers use; 0 is accepted by enqueue
  NPrio,     \* the number of priorities, 32 in the code
  NoThread,  \* the holder of a free lock
  MaxOps     \* bound: the number of calls of a behaviour

ASSUME ThreadsAssumption == NoThread \notin Threads
ASSUME TaskIdsAssumption == TaskIds \subseteq Nat
ASSUME NPrioAssumption == NPrio \in Nat \ {0}
ASSUME MaxOpsAssumption == MaxOps \in Nat

VARIABLES
  alone,             \* the calls are made one after the other
  bitmap,            \* priority_bitmap: the set of bits that are 1
  queue,             \* queues: one FIFO of task ids per priority
  lock,              \* the holder of each queue's spin lock
  current,           \* current: the running task, 0 for none
  total_schedules,
  context_switches,
  pc, task, prio,    \* the step and the locals of each thread's call
  ops                \* the number of calls begun, for the bound only

vars == <<alone, bitmap, queue, lock, current, total_schedules, context_switches,
          pc, task, prio, ops>>

locals == <<task, prio>>
stats == <<total_schedules, context_switches>>

Prio == 0 .. NPrio - 1

Steps == {"idle", "enqueue_set", "dequeue_scan", "dequeue_clear",
          "pick_lock", "pick_clear", "pick_count", "pick_switch",
          "yield_scan", "yield_clear"}

TypeOK ==
  /\ alone \in BOOLEAN
  /\ bitmap \in SUBSET Prio
  /\ queue \in [Prio -> Seq(TaskIds)]
  /\ lock \in [Prio -> Threads \cup {NoThread}]
  /\ current \in TaskIds \cup {0}
  /\ total_schedules \in Nat
  /\ context_switches \in Nat
  /\ pc \in [Threads -> Steps]
  /\ task \in [Threads -> TaskIds \cup {0}]
  /\ prio \in [Threads -> Prio]
  /\ ops \in Nat

Init ==
  /\ alone \in BOOLEAN
  /\ bitmap = {}
  /\ queue = [p \in Prio |-> <<>>]
  /\ lock = [p \in Prio |-> NoThread]
  /\ current = 0
  /\ total_schedules = 0
  /\ context_switches = 0
  /\ pc = [t \in Threads |-> "idle"]
  /\ task = [t \in Threads |-> 0]
  /\ prio = [t \in Threads |-> 0]
  /\ ops = 0

-----------------------------------------------------------------------------
(* Steps of a call.                                                        *)

Goto(t, step) == pc' = [pc EXCEPT ![t] = step]

At(t, step) == pc[t] = step

AtRest == \A t \in Threads : At(t, "idle")

(* A call begins in an idle thread. *)
Begin(t) ==
  /\ At(t, "idle")
  /\ alone => AtRest
  /\ ops < MaxOps
  /\ ops' = ops + 1

(* The queue of priority p can be locked (and is unlocked by the end of    *)
(* the same step unless the step says otherwise).                          *)
Free(p) == lock[p] = NoThread

Holds(s, id) == \E i \in DOMAIN s : s[i] = id

(* queue.iter().position(|&id| id == task_id) is Some(i) (from 1 here) *)
IsPosition(s, id, i) == s[i] = id /\ \A j \in 1 .. i - 1 : s[j] # id

(* Mutated form of IsLowestBit: 31 - leading_zeros(), which the comment in *)
(* pick_next first considers.                                              *)
IsHighestBit(bits, p) == \A q \in bits : p >= q

(* p = bits.trailing_zeros(), for p in bits *)
IsLowestBit(bits, p) == \A q \in bits : p <= q

-----------------------------------------------------------------------------
(* enqueue(task_id, priority): push under the queue's lock, then set the   *)
(* bit without it.  A priority of 32 or more returns InvalidPriority and   *)
(* changes nothing.                                                        *)

EnqueuePush(t, id, p) ==
  /\ Begin(t)
  /\ Free(p)
  /\ queue' = [queue EXCEPT ![p] = Append(@, id)]
  /\ prio' = [prio EXCEPT ![t] = p]
  /\ Goto(t, "enqueue_set")
  /\ UNCHANGED <<bitmap, lock, current, stats, task>>

EnqueueSetBit(t) ==
  /\ At(t, "enqueue_set")
  /\ bitmap' = bitmap \cup {prio[t]}
  /\ Goto(t, "idle")
  /\ UNCHANGED <<queue, lock, current, stats, locals, ops>>

(* dequeue(task_id): look through the queues one lock section at a time;   *)
(* the bit of an emptied queue is cleared before its lock is released.     *)

DequeueBegin(t, id) ==
  /\ Begin(t)
  /\ task' = [task EXCEPT ![t] = id]
  /\ prio' = [prio EXCEPT ![t] = 0]
  /\ Goto(t, "dequeue_scan")
  /\ UNCHANGED <<bitmap, queue, lock, current, stats>>

(* The queue of priority prio[t] does not hold the task: go on with the    *)
(* next one, or return TaskNotFound after the last.                        *)
ScanNext(t, scanning, done) ==
  /\ UNCHANGED <<bitmap, queue, lock, current, stats, task, ops>>
  /\ \/ /\ prio[t] + 1 \in Prio
        /\ prio' = [prio EXCEPT ![t] = @ + 1]
        /\ Goto(t, scanning)
     \/ /\ prio[t] + 1 \notin Prio
        /\ Goto(t, done)
        /\ UNCHANGED prio

DequeueMiss(t) ==
  /\ At(t, "dequeue_scan")
  /\ Free(prio[t])
  /\ ~Holds(queue[prio[t]], task[t])
  /\ ScanNext(t, "dequeue_scan", "idle")

(* Mutated form of DequeueRemove: the bit is cleared after the lock has    *)
(* been released.                                                          *)
DequeueRemoveUnlocks(t) ==
  LET p == prio[t]
  IN /\ At(t, "dequeue_scan")
     /\ Free(p)
     /\ \E i \in DOMAIN queue[p] :
          /\ IsPosition(queue[p], task[t], i)
          /\ queue' = [queue EXCEPT ![p] = RemoveAt(@, i)]
     /\ Goto(t, IF queue'[p] = <<>> THEN "dequeue_clear" ELSE "idle")
     /\ UNCHANGED <<bitmap, lock, current, stats, locals, ops>>

DequeueRemove(t) ==
  LET p == prio[t]
  IN /\ At(t, "dequeue_scan")
     /\ Free(p)
     /\ \E i \in DOMAIN queue[p] :
          /\ IsPosition(queue[p], task[t], i)
          /\ queue' = [queue EXCEPT ![p] = RemoveAt(@, i)]
     /\ \/ /\ queue'[p] = <<>>
           /\ lock' = [lock EXCEPT ![p] = t]
           /\ Goto(t, "dequeue_clear")
        \/ /\ queue'[p] # <<>>
           /\ Goto(t, "idle")
           /\ UNCHANGED lock
     /\ UNCHANGED <<bitmap, current, stats, locals, ops>>

DequeueClearBit(t) ==
  /\ At(t, "dequeue_clear")
  /\ bitmap' = bitmap \ {prio[t]}
  /\ lock' = [lock EXCEPT ![prio[t]] = NoThread]
  /\ Goto(t, "idle")
  /\ UNCHANGED <<queue, current, stats, locals, ops>>

(* pick_next(): load the bitmap, lock the queue of the lowest set bit, pop *)
(* its head, clear the bit if the queue is now empty, and update the       *)
(* statistics; the lock is held until the function returns.                *)

PickNone(t) ==
  /\ Begin(t)
  /\ bitmap = {}
  /\ UNCHANGED <<bitmap, queue, lock, current, stats, pc, locals>>

PickLoad(t) ==
  /\ Begin(t)
  /\ \E p \in bitmap : /\ IsLowestBit(bitmap, p)
                       /\ prio' = [prio EXCEPT ![t] = p]
  /\ Goto(t, "pick_lock")
  /\ UNCHANGED <<bitmap, queue, lock, current, stats, task>>

(* Mutated form of PickEmpty: pick_next tries again instead of returning   *)
(* None, in the else branch of `if let Some(id) = queue.lock().pop_front()',*)
(* to the end of which the guard lives.  The bit of the empty queue is     *)
(* still set, so the second try waits for the lock its own thread holds.   *)
PickEmptyRetries(t) ==
  /\ At(t, "pick_lock")
  /\ Free(prio[t])
  /\ queue[prio[t]] = <<>>
  /\ \/ /\ bitmap = {}
        /\ Goto(t, "idle")
        /\ UNCHANGED <<lock, prio>>
     \/ /\ \E p \in bitmap : /\ IsLowestBit(bitmap, p)
                             /\ prio' = [prio EXCEPT ![t] = p]
        /\ lock' = [lock EXCEPT ![prio[t]] = t]
        /\ UNCHANGED pc
  /\ UNCHANGED <<bitmap, queue, current, stats, task, ops>>

(* pop_front()? returns None on an empty queue. *)
PickEmpty(t) ==
  /\ At(t, "pick_lock")
  /\ Free(prio[t])
  /\ queue[prio[t]] = <<>>
  /\ Goto(t, "idle")
  /\ UNCHANGED <<bitmap, queue, lock, current, stats, locals, ops>>

(* Mutated form of PickPop: the lock is released as soon as the task is    *)
(* popped, before the bit is cleared.                                      *)
PickPopUnlocks(t) ==
  LET p == prio[t]
  IN /\ At(t, "pick_lock")
     /\ Free(p)
     /\ queue[p] # <<>>
     /\ task' = [task EXCEPT ![t] = Head(queue[p])]
     /\ queue' = [queue EXCEPT ![p] = Tail(@)]
     /\ Goto(t, IF Tail(queue[p]) = <<>> THEN "pick_clear" ELSE "pick_count")
     /\ UNCHANGED <<bitmap, lock, current, stats, prio, ops>>

PickPop(t) ==
  LET p == prio[t]
  IN /\ At(t, "pick_lock")
     /\ Free(p)
     /\ queue[p] # <<>>
     /\ lock' = [lock EXCEPT ![p] = t]
     /\ task' = [task EXCEPT ![t] = Head(queue[p])]
     /\ queue' = [queue EXCEPT ![p] = Tail(@)]
     /\ Goto(t, IF Tail(queue[p]) = <<>> THEN "pick_clear" ELSE "pick_count")
     /\ UNCHANGED <<bitmap, current, stats, prio, ops>>

PickClearBit(t) ==
  /\ At(t, "pick_clear")
  /\ bitmap' = bitmap \ {prio[t]}
  /\ Goto(t, "pick_count")
  /\ UNCHANGED <<queue, lock, current, stats, locals, ops>>

PickCount(t) ==
  /\ At(t, "pick_count")
  /\ total_schedules' = total_schedules + 1
  /\ Goto(t, "pick_switch")
  /\ UNCHANGED <<bitmap, queue, lock, current, context_switches, locals, ops>>

PickSwitch(t) ==
  /\ At(t, "pick_switch")
  /\ context_switches' =
       IF current # 0 /\ current # task[t] THEN context_switches + 1
                                           ELSE context_switches
  /\ lock' = [lock EXCEPT ![prio[t]] = NoThread]
  /\ Goto(t, "idle")
  /\ UNCHANGED <<bitmap, queue, current, total_schedules, locals, ops>>

SetCurrent(t, id) ==
  /\ Begin(t)
  /\ current' = id
  /\ UNCHANGED <<bitmap, queue, lock, stats, pc, locals>>

(* yield_task(): load current, return if there is none or if some queue    *)
(* holds it, otherwise store 0.                                            *)

YieldNone(t) ==
  /\ Begin(t)
  /\ current = 0
  /\ UNCHANGED <<bitmap, queue, lock, current, stats, pc, locals>>

YieldBegin(t) ==
  /\ Begin(t)
  /\ current # 0
  /\ task' = [task EXCEPT ![t] = current]
  /\ prio' = [prio EXCEPT ![t] = 0]
  /\ Goto(t, "yield_scan")
  /\ UNCHANGED <<bitmap, queue, lock, current, stats>>

YieldFound(t) ==
  /\ At(t, "yield_scan")
  /\ Free(prio[t])
  /\ Holds(queue[prio[t]], task[t])
  /\ Goto(t, "idle")
  /\ UNCHANGED <<bitmap, queue, lock, current, stats, locals, ops>>

YieldMiss(t) ==
  /\ At(t, "yield_scan")
  /\ Free(prio[t])
  /\ ~Holds(queue[prio[t]], task[t])
  /\ ScanNext(t, "yield_scan", "yield_clear")

YieldClear(t) ==
  /\ At(t, "yield_clear")
  /\ current' = 0
  /\ Goto(t, "idle")
  /\ UNCHANGED <<bitmap, queue, lock, stats, locals, ops>>

-----------------------------------------------------------------------------

(* A caller may begin any call at any time. *)
Call(t) ==
  \/ \E id \in TaskIds, p \in Prio : EnqueuePush(t, id, p)
  \/ \E id \in TaskIds : DequeueBegin(t, id)
  \/ PickNone(t)
  \/ PickLoad(t)
  \/ \E id \in TaskIds \cup {0} : SetCurrent(t, id)
  \/ YieldNone(t)
  \/ YieldBegin(t)

(* A call that has begun goes on. *)
Continue(t) ==
  \/ EnqueueSetBit(t)
  \/ DequeueMiss(t)
  \/ DequeueRemove(t)
  \/ DequeueClearBit(t)
  \/ PickEmpty(t)
  \/ PickPop(t)
  \/ PickClearBit(t)
  \/ PickCount(t)
  \/ PickSwitch(t)
  \/ YieldFound(t)
  \/ YieldMiss(t)
  \/ YieldClear(t)

Next ==
  /\ UNCHANGED alone
  /\ \E t \in Threads : Call(t) \/ Continue(t)

Spec == Init /\ [][Next]_vars

(* A thread inside a call is running kernel code and is not stopped for    *)
(* ever; nothing says that it ever makes another call.                     *)
Fairness == \A t \in Threads : WF_vars(Continue(t) /\ UNCHANGED alone)

FairSpec == Spec /\ Fairness

-----------------------------------------------------------------------------
(* Properties.                                                             *)

Enqueueing(p) == \E t \in Threads : At(t, "enqueue_set") /\ prio[t] = p

(* No ready task is forgotten: whatever calls interleave, a queue that     *)
(* holds a task has its bit set, or the enqueue that will set it is still  *)
(* under way.  It rests on pick_next and dequeue clearing the bit before   *)
(* they release the queue's lock.                                          *)
NoLostTask ==
  \A p \in Prio : queue[p] # <<>> => p \in bitmap \/ Enqueueing(p)

(* The lock of a queue is held exactly by the one thread that is between   *)
(* removing a task and returning.                                          *)
InLock(t, p) ==
  /\ prio[t] = p
  /\ pc[t] \in {"dequeue_clear", "pick_clear", "pick_count", "pick_switch"}

LockHeld ==
  \A p \in Prio, t \in Threads : (lock[p] = t) <=> InLock(t, p)

(* A thread about to clear a bit does so for a queue that is still empty.  *)
ClearsEmptyQueue ==
  \A t \in Threads :
    pc[t] \in {"dequeue_clear", "pick_clear"} => queue[prio[t]] = <<>>

(* The bitmap is exact between calls: bit p is set if and only if queue p  *)
(* holds a ready task, as the comment on the struct (scheduler.rs:51) says.*)
BitmapExact == AtRest => bitmap = {p \in Prio : queue[p] # <<>>}

(* pick_next takes its task from the non-empty queue of highest priority,  *)
(* i.e. of lowest index.                                                   *)
PicksHighest ==
  \A t \in Threads : At(t, "pick_lock") =>
    /\ queue[prio[t]] # <<>>
    /\ \A p \in Prio : p < prio[t] => queue[p] = <<>>

(* Called by one CPU only, the bitmap is exact between calls and picks are *)
(* of the highest priority.  With two a pick between the push and the      *)
(* setting of the bit by an enqueue leaves the bit set for an empty queue. *)
ExactAlone == alone => BitmapExact /\ PicksHighest

(* Called by one CPU, one call is under way at most, and only the bit that *)
(* it is about to set or to clear differs from its queue.                  *)
BitLags(p) ==
  \E t \in Threads : /\ pc[t] \in {"enqueue_set", "dequeue_clear", "pick_clear"}
                     /\ prio[t] = p

OneCall ==
  /\ \A t, u \in Threads : ~At(t, "idle") /\ ~At(u, "idle") => t = u
  /\ \A p \in Prio : BitLags(p) \/ (p \in bitmap <=> queue[p] # <<>>)
  /\ \A t \in Threads : pc[t] = "enqueue_set" => queue[prio[t]] # <<>>
  /\ PicksHighest

(* The inductive strengthening of NoLostTask and ExactAlone. *)
IInv ==
  /\ TypeOK /\ LockHeld /\ ClearsEmptyQueue /\ NoLostTask
  /\ alone => OneCall

(* Nobody keeps the lock of a queue for ever: pick_next and dequeue take   *)
(* no second lock and wait for nothing while they hold one, so the thread  *)
(* that has a queue locked always goes on to the end of its call.  A       *)
(* thread that waits for a lock may still be overtaken for ever, as a spin *)
(* lock hands itself to anybody.                                           *)
LocksAreReleased ==
  \A p \in Prio : lock[p] # NoThread ~> lock[p] = NoThread

=============================================================================

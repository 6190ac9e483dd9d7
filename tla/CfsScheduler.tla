---------------------------- MODULE CfsScheduler -----------------------------
(***************************************************************************)
(* The CFS scheduler, kernel/src/scheduler/scheduler.rs, over the run      *)
(* queue of run_queue.rs with its five trees, one per class of             *)
(* priority.rs, and the task states of task.rs.  The global scheduler is   *)
(* behind one lock, so every method is one atomic action.  An enqueue      *)
(* whose key search does not end keeps that lock for ever: hung becomes    *)
(* TRUE and nothing else can happen.                                       *)
(***************************************************************************)
EXTENDS Integers, FiniteSets, FiniteSetsExt, Functions, FiniteSetTheorems, TLAPS

Classes == 0 .. 4      \* Idle, Normal, Agent, High, Realtime

Weight(class) == <<3, 1024, 1536, 2048, 4096>>[class + 1]

Tick == 1000000        \* one timer tick in nanoseconds

BaseTimeSlice(class) == <<1, 5, 8, 10, 20>>[class + 1] * Tick

(* What update_vruntime adds for one tick. *)
VruntimeOfTick(class) == (Tick * 1024) \div Weight(class)

NoTask == 0            \* current == None; task ids start at 1

CONSTANTS
  ClassesUsed,   \* the priority classes of the tasks callers create
  MaxTasks,      \* bound: tasks ever created, the idle task included
  MaxTicks,      \* bound: timer ticks
  MaxSchedules,  \* bound: calls of schedule
  MaxSwitches,   \* bound: context switches
  MaxEnqueues,   \* bound: tasks put in one tree before a caller adds one more
  MaxMisuses     \* bound: breaches of the callers' contract

ASSUME ConstantsAssumption ==
  /\ ClassesUsed \subseteq Classes
  /\ {MaxTasks, MaxTicks, MaxSchedules, MaxSwitches, MaxEnqueues, MaxMisuses} \subseteq Nat

VARIABLES
  rq,                \* run_queue
  tasks,             \* tasks: id -> task control block
  total_schedules, context_switches, preemptions,
  ticks,             \* timer ticks so far, for the bound only
  hung,              \* an enqueue is looping with the scheduler locked
  misuses            \* history: how often a caller broke the contract

vars == <<rq, tasks, total_schedules, context_switches, preemptions, ticks,
          hung, misuses>>

stats == <<total_schedules, context_switches, preemptions>>

States == {"Created", "Ready", "Running", "Blocked", "Zombie"}
Flags == {"NEED_RESCHED", "EXITED", "IS_IDLE"}

TaskIds == DOMAIN tasks

Idle == 1              \* idle_task_id

(* The ids that callers have from create_task; the idle task's is private. *)
UserTasks == TaskIds \ {Idle}

TCB == [state : States, class : Classes, vruntime : Nat,
        time_slice_remain : Nat, flags : SUBSET Flags, wait_channel : {0, 1}]

NewTask(class) ==
  [state |-> "Created", class |-> class, vruntime |-> 0,
   time_slice_remain |-> BaseTimeSlice(class), flags |-> {}, wait_channel |-> 0]

-----------------------------------------------------------------------------
(* PriorityTree of run_queue.rs: the ready tasks of a class by virtual run *)
(* time; its BTreeMap is a function from keys to task ids                  *)

EmptyTree == [tree |-> <<>>, nr_tasks |-> 0, total_weight |-> 0]

Keys(t) == DOMAIN t.tree

(* The task's second choice of key: its virtual run time plus its low bits *)
SecondKey(vruntime, id) == vruntime + (id % 65536)

(* enqueue looks for a free key in a loop whose body always computes the   *)
(* same second choice: with both keys taken it never ends.                 *)
EnqueueLoops(t, vruntime, id) == {vruntime, SecondKey(vruntime, id)} \subseteq Keys(t)

TreeEnqueue(t, vruntime, id, weight) ==
  LET key == IF vruntime \in Keys(t) THEN SecondKey(vruntime, id) ELSE vruntime
  IN [tree |-> [k \in Keys(t) \cup {key} |-> IF k = key THEN id ELSE t.tree[k]],
      nr_tasks |-> t.nr_tasks + 1,
      total_weight |-> t.total_weight + weight]

(* Removing an entry leaves total_weight as it was. *)
TreeWithout(t, key) ==
  [tree |-> Restrict(t.tree, Keys(t) \ {key}), nr_tasks |-> t.nr_tasks - 1,
   total_weight |-> t.total_weight]

KeysOf(t, id) == {k \in Keys(t) : t.tree[k] = id}

-----------------------------------------------------------------------------
(* RunQueue of run_queue.rs: operators on the value that is kept in rq     *)

EmptyRunQueue ==
  [current |-> NoTask, trees |-> [c \in Classes |-> EmptyTree],
   min_vruntime |-> 0, nr_running |-> 0]

AllKeys(q) == UNION {Keys(q.trees[c]) : c \in Classes}

SaturatingDec(n) == IF n = 0 THEN 0 ELSE n - 1

(* update_min_vruntime: the least key of all trees, if there is one. *)
UpdateMin(q) ==
  IF AllKeys(q) = {} THEN q ELSE [q EXCEPT !.min_vruntime = Min(AllKeys(q))]

(* A task that has never run starts at min_vruntime. *)
EntryVruntime(q, vruntime) ==
  IF vruntime = 0 /\ q.min_vruntime > 0 THEN q.min_vruntime ELSE vruntime

RqEnqueueLoops(q, id, class, vruntime) ==
  EnqueueLoops(q.trees[class], EntryVruntime(q, vruntime), id)

(* The queue with another tree for a class. *)
WithTree(q, class, t, current, nr_running) ==
  [current |-> current, trees |-> [q.trees EXCEPT ![class] = t],
   min_vruntime |-> q.min_vruntime, nr_running |-> nr_running]

RqEnqueue(q, id, class, vruntime) ==
  LET t == TreeEnqueue(q.trees[class], EntryVruntime(q, vruntime), id, Weight(class))
  IN UpdateMin(WithTree(q, class, t, q.current, q.nr_running + 1))

QueuedIn(q, id) == {c \in Classes : KeysOf(q.trees[c], id) # {}}

Queued(q, id) == QueuedIn(q, id) # {}

(* dequeue removes the first entry of the task, from the lowest class and  *)
(* the least key on, and clears current only when it found an entry.       *)
RqDequeue(q, id) ==
  IF ~Queued(q, id) THEN q
  ELSE LET c == Min(QueuedIn(q, id))
           t == TreeWithout(q.trees[c], Min(KeysOf(q.trees[c], id)))
           current == IF q.current = id THEN NoTask ELSE q.current
       IN UpdateMin(WithTree(q, c, t, current, SaturatingDec(q.nr_running)))

NonEmpty(q) == {c \in Classes : Keys(q.trees[c]) # {}}

(* Mutated form of PickClass: the loop over the classes runs upwards. *)
LowestClass(q) == Min(NonEmpty(q))

(* pick_next_task looks from the highest class down. *)
PickClass(q) == Max(NonEmpty(q))

(* pick_next_task on a queue that is not empty: the task of the least key  *)
(* of the highest non-empty class becomes current.                         *)
RqPick(q) ==
  LET c == PickClass(q)
      key == Min(Keys(q.trees[c]))
      t == TreeWithout(q.trees[c], key)
  IN UpdateMin(WithTree(q, c, t, q.trees[c].tree[key], SaturatingDec(q.nr_running)))

-----------------------------------------------------------------------------
(* Scheduler                                                               *)

(* new() followed by init(): the idle task exists but is in no tree. *)
Init ==
  /\ rq = EmptyRunQueue
  /\ tasks = [i \in {Idle} |->
                [NewTask(0) EXCEPT !.state = "Ready", !.flags = {"IS_IDLE"}]]
  /\ total_schedules = 0
  /\ context_switches = 0
  /\ preemptions = 0
  /\ ticks = 0
  /\ hung = FALSE
  /\ misuses = 0

-----------------------------------------------------------------------------
(* Helpers of the methods.                                                 *)

(* TaskState::can_transition *)
CanTransition(from, to) ==
  \/ from = to
  \/ <<from, to>> \in {<<"Created", "Ready">>, <<"Ready", "Running">>,
                       <<"Running", "Ready">>, <<"Running", "Blocked">>,
                       <<"Running", "Zombie">>, <<"Blocked", "Ready">>}

Loops(q, ts, id) == RqEnqueueLoops(q, id, ts[id].class, ts[id].vruntime)

Put(q, ts, id) == RqEnqueue(q, id, ts[id].class, ts[id].vruntime)

SetState(ts, id, state) == [ts EXCEPT ![id].state = state]

(* pick_next_task and marking the task it returns as running. *)
PickInto(q, ts) ==
  /\ rq' = RqPick(q)
  /\ tasks' = SetState(ts, rq'.current, "Running")

(* The contract of the callers: no task is enqueued that is in the run     *)
(* queue, and none is picked while one is running.                         *)
CountMisuse(broken) ==
  /\ misuses' = IF broken THEN misuses + 1 ELSE misuses
  /\ misuses' <= MaxMisuses

-----------------------------------------------------------------------------
(* The methods.                                                            *)

CreateTask(class) ==
  LET id == Cardinality(TaskIds) + 1
  IN /\ ~hung
     /\ id <= MaxTasks
     /\ tasks' = [i \in TaskIds \cup {id} |-> IF i = id THEN NewTask(class) ELSE tasks[i]]
     /\ UNCHANGED <<rq, stats, ticks, hung, misuses>>

(* A tree's total_weight is never decremented, so it counts the enqueues.  *)
Enqueues(class) == rq.trees[class].total_weight \div Weight(class)

(* enqueue and wake_up: the new state is stored first, then the tree is    *)
(* searched for a key.                                                     *)
EnqueueAs(id, ts) ==
  /\ ~hung
  /\ Enqueues(ts[id].class) < MaxEnqueues
  /\ tasks' = ts
  /\ \/ Loops(rq, ts, id) /\ hung' = TRUE /\ UNCHANGED rq
     \/ ~Loops(rq, ts, id) /\ rq' = Put(rq, ts, id) /\ UNCHANGED hung
  /\ UNCHANGED <<stats, ticks>>

Enqueue(id) ==
  /\ CountMisuse(Queued(rq, id))
  /\ CanTransition(tasks[id].state, "Ready")
  /\ EnqueueAs(id, SetState(tasks, id, "Ready"))

Dequeue(id) ==
  /\ ~hung
  /\ tasks[id].state \in {"Ready", "Running"}
  /\ rq' = RqDequeue(rq, id)
  /\ tasks' = SetState(tasks, id, "Ready")
  /\ UNCHANGED <<stats, ticks, hung, misuses>>

PickNext ==
  /\ ~hung
  /\ CountMisuse(\E i \in TaskIds : tasks[i].state = "Running")
  /\ NonEmpty(rq) # {}
  /\ PickInto(rq, tasks)
  /\ UNCHANGED <<stats, ticks, hung>>

(* The current task, if it is running, goes back to the queue and current  *)
(* is cleared; then the next task is picked.                               *)
CurrentRunning == rq.current # NoTask /\ tasks[rq.current].state = "Running"

Yield ==
  LET c == rq.current
      back == IF CurrentRunning THEN SetState(tasks, c, "Ready") ELSE tasks
      q == IF CurrentRunning THEN [Put(rq, back, c) EXCEPT !.current = NoTask] ELSE rq
  IN /\ ~hung
     /\ ~(CurrentRunning /\ Loops(rq, back, c))
     /\ NonEmpty(q) # {}
     /\ context_switches < MaxSwitches
     /\ PickInto(q, back)
     /\ context_switches' = context_switches + 1
     /\ UNCHANGED <<total_schedules, preemptions, ticks, hung, misuses>>

YieldLoops ==
  LET back == SetState(tasks, rq.current, "Ready")
  IN /\ ~hung
     /\ CurrentRunning
     /\ Loops(rq, back, rq.current)
     /\ tasks' = back
     /\ hung' = TRUE
     /\ UNCHANGED <<rq, stats, ticks, misuses>>

Sleep(id) ==
  /\ ~hung
  /\ tasks[id].state \in {"Running", "Ready"}
  /\ tasks' = [tasks EXCEPT ![id].state = "Blocked", ![id].wait_channel = 1]
  /\ rq' = RqDequeue(rq, id)
  /\ UNCHANGED <<stats, ticks, hung, misuses>>

(* Mutated form of WakeUp: the state check is missing. *)
WakeUpUnchecked(id) ==
  EnqueueAs(id, [tasks EXCEPT ![id].state = "Ready", ![id].wait_channel = 0])
  /\ UNCHANGED misuses

WakeUp(id) ==
  /\ tasks[id].state = "Blocked"
  /\ EnqueueAs(id, [tasks EXCEPT ![id].state = "Ready", ![id].wait_channel = 0])
  /\ UNCHANGED misuses

Exit(id) ==
  /\ ~hung
  /\ tasks' = [tasks EXCEPT ![id].state = "Zombie", ![id].flags = @ \cup {"EXITED"}]
  /\ rq' = RqDequeue(rq, id)
  /\ UNCHANGED <<stats, ticks, hung, misuses>>

NeedResched ==
  rq.current # NoTask => "NEED_RESCHED" \in tasks[rq.current].flags

ScheduleKeeps ==
  /\ ~hung
  /\ total_schedules < MaxSchedules
  /\ total_schedules' = total_schedules + 1
  /\ ~NeedResched
  /\ UNCHANGED <<rq, tasks, context_switches, preemptions, ticks, hung, misuses>>

(* The task table when the running task is preempted. *)
Preempted ==
  [tasks EXCEPT ![rq.current].state = "Ready", ![rq.current].flags = @ \ {"NEED_RESCHED"}]

PreemptionCount == IF CurrentRunning THEN preemptions + 1 ELSE preemptions

(* schedule with NEED_RESCHED or no current task: a running task goes back *)
(* to the queue and is counted as preempted, current is cleared, and the   *)
(* next task, if any, is picked.                                           *)
ScheduleSwitches ==
  LET back == IF CurrentRunning THEN Preempted ELSE tasks
      q == IF CurrentRunning THEN Put(rq, back, rq.current) ELSE rq
      cleared == [q EXCEPT !.current = NoTask]
  IN /\ ~hung
     /\ total_schedules < MaxSchedules
     /\ context_switches < MaxSwitches
     /\ NeedResched
     /\ ~(CurrentRunning /\ Loops(rq, back, rq.current))
     /\ total_schedules' = total_schedules + 1
     /\ preemptions' = PreemptionCount
     /\ \/ /\ NonEmpty(q) = {}
           /\ rq' = cleared
           /\ UNCHANGED <<tasks, context_switches>>
        \/ /\ NonEmpty(q) # {}
           /\ PickInto(cleared, back)
           /\ context_switches' = context_switches + 1
     /\ UNCHANGED <<ticks, hung, misuses>>

ScheduleLoops ==
  /\ ~hung
  /\ total_schedules < MaxSchedules
  /\ NeedResched
  /\ CurrentRunning
  /\ Loops(rq, Preempted, rq.current)
  /\ total_schedules' = total_schedules + 1
  /\ tasks' = Preempted
  /\ hung' = TRUE
  /\ UNCHANGED <<rq, context_switches, preemptions, ticks, misuses>>

SliceAfterTick(slice) == IF slice > Tick THEN slice - Tick ELSE 0

TimerTick ==
  LET c == rq.current
      t == tasks[c]
  IN /\ ~hung
     /\ ticks < MaxTicks
     /\ CurrentRunning
     /\ ticks' = ticks + 1
     /\ tasks' = [tasks EXCEPT ![c] =
          [t EXCEPT
            !.vruntime = @ + VruntimeOfTick(t.class),
            !.time_slice_remain = SliceAfterTick(@),
            !.flags = IF t.time_slice_remain > Tick THEN @ ELSE @ \cup {"NEED_RESCHED"}]]
     /\ UNCHANGED <<rq, stats, hung, misuses>>

Next ==
  \/ \E class \in ClassesUsed : CreateTask(class)
  \/ \E id \in UserTasks : Enqueue(id)
  \/ \E id \in UserTasks : Dequeue(id)
  \/ \E id \in UserTasks : Sleep(id)
  \/ \E id \in UserTasks : WakeUp(id)
  \/ \E id \in UserTasks : Exit(id)
  \/ PickNext
  \/ Yield
  \/ YieldLoops
  \/ ScheduleKeeps
  \/ ScheduleSwitches
  \/ ScheduleLoops
  \/ TimerTick

Spec == Init /\ [][Next]_vars

-----------------------------------------------------------------------------
(* Properties.                                                             *)

EntriesOf(id) == UNION {{<<c, k>> : k \in KeysOf(rq.trees[c], id)} : c \in Classes}

EntriesIn(q) == UNION {{<<c, k>> : k \in Keys(q.trees[c])} : c \in Classes}

(* The counts that stats() reports are the sizes of the trees. *)
TreeOK(t) ==
  /\ Keys(t) \subseteq Nat
  /\ IsFiniteSet(Keys(t))
  /\ t.nr_tasks = Cardinality(Keys(t))
  /\ t.total_weight \in Nat

RunQueueOK(q) ==
  /\ q = [current |-> q.current, trees |-> [c \in Classes |-> q.trees[c]],
          min_vruntime |-> q.min_vruntime, nr_running |-> q.nr_running]
  /\ q.current \in Nat
  /\ \A c \in Classes : TreeOK(q.trees[c])
  /\ q.min_vruntime \in Nat
  /\ IsFiniteSet(EntriesIn(q))
  /\ q.nr_running = Cardinality(EntriesIn(q))

TableOK(ts) ==
  /\ Cardinality(DOMAIN ts) \in Nat
  /\ DOMAIN ts = 1 .. Cardinality(DOMAIN ts)
  /\ Idle \in DOMAIN ts
  /\ ts \in [DOMAIN ts -> TCB]

TypeOK ==
  /\ TableOK(tasks)
  /\ RunQueueOK(rq)
  /\ rq.current \in TaskIds \cup {NoTask}
  /\ {total_schedules, context_switches, preemptions, ticks} \subseteq Nat
  /\ hung \in BOOLEAN
  /\ misuses \in 0 .. MaxMisuses

(* Each entry is a task in the tree of its class. *)
InTheirTrees(q, ts) ==
  \A c \in Classes : \A k \in Keys(q.trees[c]) :
    q.trees[c].tree[k] \in DOMAIN ts /\ ts[q.trees[c].tree[k]].class = c

(* A queued task is Ready and has one entry. *)
ReadyOnce(q, ts) ==
  \A c \in Classes : \A k \in Keys(q.trees[c]) :
    /\ ts[q.trees[c].tree[k]].state = "Ready"
    /\ \A l \in Keys(q.trees[c]) : q.trees[c].tree[l] = q.trees[c].tree[k] => l = k

CurrentRuns(q, ts) == \A i \in DOMAIN ts : ts[i].state = "Running" => q.current = i

ExitedAreZombies(ts) == \A i \in DOMAIN ts : "EXITED" \in ts[i].flags => ts[i].state = "Zombie"

(* What the callers' contract keeps. *)
Orderly(q, ts) == ReadyOnce(q, ts) /\ CurrentRuns(q, ts) /\ ExitedAreZombies(ts)

(* The inductive invariant. *)
IInv ==
  /\ TypeOK
  /\ InTheirTrees(rq, tasks)
  /\ misuses = 0 => Orderly(rq, tasks)

(* While the callers keep the contract the run queue and the task table    *)
(* agree: a queued task is Ready, it is queued once, and in the tree of    *)
(* its class.                                                              *)
QueuedOnce == misuses = 0 =>
  \A c \in Classes : \A k \in Keys(rq.trees[c]) :
    LET id == rq.trees[c].tree[k]
    IN /\ tasks[id].state = "Ready"
       /\ tasks[id].class = c
       /\ Cardinality(EntriesOf(id)) = 1

(* While they do, at most one task is Running, and it is current. *)
OneRunning == misuses = 0 =>
  \A i \in TaskIds : tasks[i].state = "Running" => rq.current = i

(* exit (scheduler.rs:226) removes the task from the run queue: while the  *)
(* callers keep the contract a task that has exited stays a Zombie and is  *)
(* never queued or run again.                                              *)
ExitedStaysDead == misuses = 0 =>
  \A i \in TaskIds : "EXITED" \in tasks[i].flags =>
    tasks[i].state = "Zombie" /\ ~Queued(rq, i)

(* The counts that stats() reports are the sizes of the trees, through all *)
(* removals and whatever the callers do.                                   *)
CountsMatch ==
  /\ \A c \in Classes : rq.trees[c].nr_tasks = Cardinality(Keys(rq.trees[c]))
  /\ rq.nr_running = Cardinality(EntriesIn(rq))

(* The run queue and the task table agree while callers keep the contract: *)
(* a queued task is Ready and queued once, only current is Running, a task *)
(* that has exited is never queued or run again; and whatever callers do,  *)
(* the counts are the sizes of the trees.                                  *)
QueueMatchesTable == QueuedOnce /\ OneRunning /\ ExitedStaysDead /\ CountsMatch

(* Strict priorities: a task that starts to run leaves no queued task of a *)
(* higher class behind.                                                    *)
StartsHighest ==
  \A i \in TaskIds :
    tasks[i].state # "Running" /\ tasks'[i].state = "Running"
      => \A c \in Classes : c > tasks[i].class => Keys(rq'.trees[c]) = {}

HighestClassRuns == [][StartsHighest]_vars

(* run_queue.rs:157: removing the current task clears current, so that     *)
(* current always names a task that can run.                               *)
CurrentCanRun ==
  rq.current # NoTask => tasks[rq.current].state \in {"Running", "Ready"}

(* run_queue.rs:42: the second key makes entries unique, so that enqueue   *)
(* always finds one.                                                       *)
NeverHangs == ~hung

-----------------------------------------------------------------------------
(* Theorems, for any number of tasks, ticks and calls *)

(* A tree or a class is picked by its least key or its highest number.     *)
LEMMA MinIn ==
  ASSUME NEW S, S \subseteq Nat, S # {}
  PROVE  Min(S) \in S
<1> DEFINE Less == {ss \in Nat \X Nat : ss[1] < ss[2]}
<1>1. IsWellFoundedOn(Less, Nat)
  BY NatLessThanWellFounded DEF OpToRel
<1>2. PICK x \in S : \A y \in S : ~(<<y, x>> \in Less)
  BY <1>1, WFMin
<1>3. ASSUME NEW y \in S PROVE x <= y
  <2>1. x \in Nat /\ y \in Nat
    OBVIOUS
  <2>2. y < x => <<y, x>> \in Less
    BY <2>1
  <2> QED BY <1>2, <2>1, <2>2
<1> QED BY <1>3 DEF Min

LEMMA MaxIn ==
  ASSUME NEW S, S \subseteq Classes, S # {}
  PROVE  Max(S) \in S /\ \A y \in S : Max(S) >= y
<1>1. \E x \in S : \A y \in S : x >= y
  <2>1. S \subseteq {0, 1, 2, 3, 4}
    BY DEF Classes
  <2>2. CASE 4 \in S
    BY <2>1, <2>2
  <2>3. CASE 4 \notin S /\ 3 \in S
    BY <2>1, <2>3
  <2>4. CASE 4 \notin S /\ 3 \notin S /\ 2 \in S
    BY <2>1, <2>4
  <2>5. CASE S \subseteq {0, 1} /\ 1 \in S
    BY <2>5
  <2>6. CASE S = {0}
    BY <2>6
  <2> QED BY <2>1, <2>2, <2>3, <2>4, <2>5, <2>6
<1> QED BY <1>1 DEF Max

LEMMA Numbers ==
  /\ \A class \in Classes :
       /\ Weight(class) \in Nat \ {0}
       /\ VruntimeOfTick(class) \in Nat
       /\ BaseTimeSlice(class) \in Nat
  /\ \A slice \in Nat : SliceAfterTick(slice) \in Nat
<1>1. ASSUME NEW class \in Classes
      PROVE  /\ Weight(class) \in Nat \ {0}
             /\ VruntimeOfTick(class) \in Nat
             /\ BaseTimeSlice(class) \in Nat
  BY DEF Classes, Weight, VruntimeOfTick, BaseTimeSlice, Tick
<1>2. \A slice \in Nat : SliceAfterTick(slice) \in Nat
  BY DEF SliceAfterTick, Tick
<1> QED BY <1>1, <1>2

-----------------------------------------------------------------------------
(* The run queue *)

LEMMA EntryIn ==
  ASSUME NEW q, NEW c, NEW k
  PROVE  <<c, k>> \in EntriesIn(q) <=> c \in Classes /\ k \in Keys(q.trees[c])
BY DEF EntriesIn

LEMMA EntryIs ==
  ASSUME NEW q, NEW e \in EntriesIn(q)
  PROVE  \E c \in Classes : \E k \in Keys(q.trees[c]) : e = <<c, k>>
BY DEF EntriesIn

(* id has a new entry, and the rest of the tree, of the queue is as it was. *)
TreeAdds(t, u, key, id) ==
  /\ key \in Nat \ Keys(t)
  /\ Keys(u) = Keys(t) \cup {key}
  /\ \A k \in Keys(u) : u.tree[k] = IF k = key THEN id ELSE t.tree[k]

Adds(q, r, c, id) ==
  /\ \E key \in Nat : TreeAdds(q.trees[c], r.trees[c], key, id)
  /\ \A d \in Classes \ {c} : r.trees[d] = q.trees[d]

(* One entry is gone, and the rest of the tree, of the queue is as it was. *)
TreeRemoves(t, u, key) ==
  /\ key \in Keys(t)
  /\ Keys(u) = Keys(t) \ {key}
  /\ \A k \in Keys(u) : u.tree[k] = t.tree[k]

Removes(q, r, c, key) ==
  /\ TreeRemoves(q.trees[c], r.trees[c], key)
  /\ \A d \in Classes \ {c} : r.trees[d] = q.trees[d]

LEMMA UpdateMinKeeps ==
  ASSUME NEW q, RunQueueOK(q)
  PROVE  /\ RunQueueOK(UpdateMin(q))
         /\ UpdateMin(q).current = q.current
         /\ UpdateMin(q).trees = q.trees
<1> DEFINE m == IF AllKeys(q) = {} THEN q.min_vruntime ELSE Min(AllKeys(q))
<1>1. AllKeys(q) \subseteq Nat
  BY DEF RunQueueOK, TreeOK, AllKeys
<1>2. m \in Nat
  BY <1>1, MinIn DEF RunQueueOK
<1>3. UpdateMin(q) = [current |-> q.current, trees |-> q.trees, min_vruntime |-> m,
                      nr_running |-> q.nr_running]
  BY DEF UpdateMin, RunQueueOK
<1> HIDE DEF m
<1>4. EntriesIn(UpdateMin(q)) = EntriesIn(q)
  BY <1>3 DEF EntriesIn
<1> QED BY <1>2, <1>3, <1>4 DEF RunQueueOK

LEMMA TreeEnqueueAdds ==
  ASSUME NEW t, TreeOK(t), NEW vruntime \in Nat, NEW id \in Nat, NEW weight \in Nat,
         ~EnqueueLoops(t, vruntime, id), NEW u, u = TreeEnqueue(t, vruntime, id, weight)
  PROVE  TreeOK(u) /\ \E key \in Nat : TreeAdds(t, u, key, id)
<1> DEFINE second == SecondKey(vruntime, id)
           key == IF vruntime \in Keys(t) THEN second ELSE vruntime
<1>1. second \in Nat
  BY DEF SecondKey
<1>2. key \in Nat \ Keys(t)
  BY <1>1 DEF EnqueueLoops
<1>3. u = [tree |-> [k \in Keys(t) \cup {key} |-> IF k = key THEN id ELSE t.tree[k]],
           nr_tasks |-> t.nr_tasks + 1, total_weight |-> t.total_weight + weight]
  BY DEF TreeEnqueue
<1> HIDE DEF second, key
<1>4. Keys(u) = Keys(t) \cup {key}
  BY <1>3 DEF Keys
<1>5. \A k \in Keys(u) : u.tree[k] = IF k = key THEN id ELSE t.tree[k]
  <2>1. u.tree = [k \in Keys(t) \cup {key} |-> IF k = key THEN id ELSE t.tree[k]]
    BY <1>3
  <2> QED BY <1>4, <2>1
<1>6. IsFiniteSet(Keys(u)) /\ Cardinality(Keys(u)) = Cardinality(Keys(t)) + 1
  BY <1>2, <1>4, FS_AddElement DEF TreeOK
<1>7. TreeOK(u)
  <2>1. u.nr_tasks = t.nr_tasks + 1 /\ u.total_weight = t.total_weight + weight
    BY <1>3
  <2>2. Keys(u) \subseteq Nat
    BY <1>2, <1>4 DEF TreeOK
  <2> QED BY <1>6, <2>1, <2>2 DEF TreeOK
<1>8. TreeAdds(t, u, key, id)
  BY <1>2, <1>4, <1>5 DEF TreeAdds
<1> QED BY <1>2, <1>7, <1>8

LEMMA TreeWithoutRemoves ==
  ASSUME NEW t, TreeOK(t), NEW key \in Keys(t), NEW u, u = TreeWithout(t, key)
  PROVE  TreeOK(u) /\ TreeRemoves(t, u, key)
<1>1. u = [tree |-> [k \in Keys(t) \ {key} |-> t.tree[k]],
           nr_tasks |-> t.nr_tasks - 1, total_weight |-> t.total_weight]
  BY DEF TreeWithout, Restrict
<1>2. Keys(u) = Keys(t) \ {key}
  BY <1>1 DEF Keys
<1>3. \A k \in Keys(u) : u.tree[k] = t.tree[k]
  BY <1>1, <1>2
<1>4. IsFiniteSet(Keys(u)) /\ Cardinality(Keys(u)) = Cardinality(Keys(t)) - 1
  BY <1>2, FS_RemoveElement DEF TreeOK
<1>5. TreeOK(u)
  <2>1. u.nr_tasks = t.nr_tasks - 1 /\ u.total_weight = t.total_weight
    BY <1>1
  <2> QED BY <1>2, <1>4, <2>1 DEF TreeOK
<1> QED BY <1>2, <1>3, <1>5 DEF TreeRemoves

LEMMA EnqueueAdds ==
  ASSUME NEW q, RunQueueOK(q), NEW id \in Nat, NEW class \in Classes, NEW vruntime \in Nat,
         ~RqEnqueueLoops(q, id, class, vruntime),
         NEW r, r = RqEnqueue(q, id, class, vruntime)
  PROVE  RunQueueOK(r) /\ r.current = q.current /\ Adds(q, r, class, id)
<1> DEFINE v == EntryVruntime(q, vruntime)
           w == Weight(class)
           t == q.trees[class]
           u == TreeEnqueue(t, v, id, w)
           n == q.nr_running + 1
           p == WithTree(q, class, u, q.current, n)
<1>1. r = UpdateMin(p)
  BY DEF RqEnqueue
<1>2. v \in Nat
  BY DEF EntryVruntime, RunQueueOK
<1>3. TreeOK(t) /\ ~EnqueueLoops(t, v, id) /\ w \in Nat
  BY Numbers DEF RunQueueOK, RqEnqueueLoops
<1>4. p = WithTree(q, class, u, q.current, n) /\ u = TreeEnqueue(t, v, id, w)
  OBVIOUS
<1> HIDE DEF v, w, p, t, u
<1>5. TreeOK(u) /\ \E key \in Nat : TreeAdds(t, u, key, id)
  BY <1>2, <1>3, <1>4, TreeEnqueueAdds
<1>6. PICK key \in Nat : TreeAdds(t, u, key, id)
  BY <1>5
<1>7. /\ p.trees[class] = u
      /\ \A d \in Classes \ {class} : p.trees[d] = q.trees[d]
  <2>1. p.trees = [q.trees EXCEPT ![class] = u]
    BY <1>4 DEF WithTree
  <2>2. q.trees = [d \in Classes |-> q.trees[d]]
    BY DEF RunQueueOK
  <2> QED BY <2>1, <2>2
<1>8. EntriesIn(p) = EntriesIn(q) \cup {<<class, key>>}
  BY <1>6, <1>7 DEF TreeAdds, EntriesIn, t
<1>9. <<class, key>> \notin EntriesIn(q)
  BY <1>6, EntryIn DEF TreeAdds, t
<1>10. IsFiniteSet(EntriesIn(p)) /\ Cardinality(EntriesIn(p)) = n
  <2>1. IsFiniteSet(EntriesIn(q)) /\ q.nr_running = Cardinality(EntriesIn(q))
    BY DEF RunQueueOK
  <2> QED BY <1>8, <1>9, <2>1, FS_AddElement
<1>11. RunQueueOK(p)
  <2>1. \A c \in Classes : TreeOK(p.trees[c])
    BY <1>5, <1>7 DEF RunQueueOK
  <2>2. /\ p = [current |-> p.current, trees |-> [c \in Classes |-> p.trees[c]],
               min_vruntime |-> p.min_vruntime, nr_running |-> p.nr_running]
        /\ p.current \in Nat /\ p.min_vruntime \in Nat /\ p.nr_running = n
    BY <1>4 DEF RunQueueOK, WithTree
  <2> QED BY <1>10, <2>1, <2>2 DEF RunQueueOK
<1>12. RunQueueOK(r) /\ r.current = p.current /\ r.trees = p.trees
  BY <1>1, <1>11, UpdateMinKeeps
<1>13. Adds(q, r, class, id)
  BY <1>6, <1>7, <1>12 DEF Adds, t
<1> QED BY <1>4, <1>12, <1>13 DEF WithTree

LEMMA RemovalRemoves ==
  ASSUME NEW q, RunQueueOK(q), NEW class \in Classes, NEW key \in Keys(q.trees[class]),
         NEW current \in Nat, NEW r,
         r = UpdateMin(WithTree(q, class, TreeWithout(q.trees[class], key), current,
                                SaturatingDec(q.nr_running)))
  PROVE  RunQueueOK(r) /\ r.current = current /\ Removes(q, r, class, key)
<1> DEFINE t == q.trees[class]
           u == TreeWithout(t, key)
           n == SaturatingDec(q.nr_running)
           p == WithTree(q, class, u, current, n)
<1>1. r = UpdateMin(p) /\ p = WithTree(q, class, u, current, n) /\ u = TreeWithout(t, key)
  OBVIOUS
<1>2. TreeOK(t) /\ key \in Keys(t)
  BY DEF RunQueueOK
<1>3. /\ q.trees = [d \in Classes |-> q.trees[d]]
      /\ IsFiniteSet(EntriesIn(q))
      /\ q.nr_running = Cardinality(EntriesIn(q))
  BY DEF RunQueueOK
<1>4. <<class, key>> \in EntriesIn(q)
  BY EntryIn
<1>5. /\ IsFiniteSet(EntriesIn(q) \ {<<class, key>>})
      /\ Cardinality(EntriesIn(q) \ {<<class, key>>}) = n
  <2>1. Cardinality(EntriesIn(q)) \in Nat /\ Cardinality(EntriesIn(q)) # 0
    BY <1>3, <1>4, FS_CardinalityType, FS_EmptySet
  <2>2. n = Cardinality(EntriesIn(q)) - 1
    BY <1>3, <2>1 DEF SaturatingDec
  <2> QED BY <1>3, <1>4, <2>2, FS_RemoveElement
<1> HIDE DEF t, u, n, p
<1>6. TreeOK(u) /\ TreeRemoves(t, u, key)
  BY <1>1, <1>2, TreeWithoutRemoves
<1>7. p.trees[class] = u /\ \A d \in Classes \ {class} : p.trees[d] = q.trees[d]
  <2>1. p.trees = [q.trees EXCEPT ![class] = u]
    BY <1>1 DEF WithTree
  <2> QED BY <1>3, <2>1
<1>8. EntriesIn(p) = EntriesIn(q) \ {<<class, key>>}
  BY <1>6, <1>7 DEF TreeRemoves, EntriesIn, t
<1>9. RunQueueOK(p)
  <2>1. \A c \in Classes : TreeOK(p.trees[c])
    BY <1>6, <1>7 DEF RunQueueOK
  <2>2. /\ p = [current |-> p.current, trees |-> [c \in Classes |-> p.trees[c]],
               min_vruntime |-> p.min_vruntime, nr_running |-> p.nr_running]
        /\ p.current \in Nat /\ p.min_vruntime \in Nat /\ p.nr_running = n
    BY <1>1 DEF RunQueueOK, WithTree
  <2> QED BY <1>5, <1>8, <2>1, <2>2 DEF RunQueueOK
<1>10. RunQueueOK(r) /\ r.current = p.current /\ r.trees = p.trees
  BY <1>1, <1>9, UpdateMinKeeps
<1>11. Removes(q, r, class, key)
  BY <1>6, <1>7, <1>10 DEF Removes, t
<1> QED BY <1>1, <1>10, <1>11 DEF WithTree

(* pick_next_task takes an entry, and leaves none of a higher class.       *)
LEMMA PickRemoves ==
  ASSUME NEW q, RunQueueOK(q), NonEmpty(q) # {}, NEW r, r = RqPick(q),
         \A c \in Classes : \A k \in Keys(q.trees[c]) : q.trees[c].tree[k] \in Nat
  PROVE  /\ RunQueueOK(r)
         /\ \E c \in Classes : \E key \in Keys(q.trees[c]) :
              /\ Removes(q, r, c, key)
              /\ r.current = q.trees[c].tree[key]
              /\ \A d \in Classes : d > c => Keys(r.trees[d]) = {}
<1> DEFINE c == PickClass(q)
           key == Min(Keys(q.trees[c]))
<1>1. c \in NonEmpty(q) /\ \A d \in NonEmpty(q) : c >= d
  BY MaxIn DEF NonEmpty, PickClass
<1>2. c \in Classes /\ \A d \in Classes : d > c => Keys(q.trees[d]) = {}
  BY <1>1 DEF NonEmpty, Classes
<1>3. key \in Keys(q.trees[c])
  <2>1. Keys(q.trees[c]) # {} /\ Keys(q.trees[c]) \subseteq Nat
    BY <1>1 DEF NonEmpty, RunQueueOK, TreeOK
  <2> QED BY <2>1, MinIn
<1>4. r = UpdateMin(WithTree(q, c, TreeWithout(q.trees[c], key), q.trees[c].tree[key],
                             SaturatingDec(q.nr_running)))
  BY DEF RqPick
<1> HIDE DEF c, key
<1>5. RunQueueOK(r) /\ r.current = q.trees[c].tree[key] /\ Removes(q, r, c, key)
  BY <1>2, <1>3, <1>4, RemovalRemoves
<1>6. \A d \in Classes : d > c => Keys(r.trees[d]) = {}
  BY <1>2, <1>5 DEF Removes, Classes
<1> QED BY <1>2, <1>3, <1>5, <1>6

(* dequeue removes an entry of the task, if it has one.                    *)
LEMMA DequeueRemoves ==
  ASSUME NEW q, RunQueueOK(q), NEW id \in Nat, NEW r, r = RqDequeue(q, id)
  PROVE  /\ RunQueueOK(r)
         /\ \/ ~Queued(q, id) /\ r = q
            \/ /\ r.current = IF q.current = id THEN NoTask ELSE q.current
               /\ \E c \in Classes : \E key \in Keys(q.trees[c]) :
                    Removes(q, r, c, key) /\ q.trees[c].tree[key] = id
<1>1. CASE ~Queued(q, id)
  BY <1>1 DEF RqDequeue
<1>2. CASE Queued(q, id)
  <2> DEFINE c == Min(QueuedIn(q, id))
             key == Min(KeysOf(q.trees[c], id))
             current == IF q.current = id THEN NoTask ELSE q.current
  <2>1. c \in Classes /\ KeysOf(q.trees[c], id) # {}
    <3>1. QueuedIn(q, id) # {} /\ QueuedIn(q, id) \subseteq Nat
      BY <1>2 DEF Queued, QueuedIn, Classes
    <3>2. c \in QueuedIn(q, id)
      BY <3>1, MinIn
    <3> QED BY <3>2 DEF QueuedIn
  <2>2. key \in Keys(q.trees[c]) /\ q.trees[c].tree[key] = id
    <3>1. KeysOf(q.trees[c], id) \subseteq Nat
      BY <2>1 DEF KeysOf, RunQueueOK, TreeOK
    <3>2. key \in KeysOf(q.trees[c], id)
      BY <2>1, <3>1, MinIn
    <3> QED BY <3>2 DEF KeysOf
  <2>3. current \in Nat
    BY DEF RunQueueOK, NoTask
  <2>4. r = UpdateMin(WithTree(q, c, TreeWithout(q.trees[c], key), current,
                               SaturatingDec(q.nr_running)))
    BY <1>2 DEF RqDequeue
  <2> HIDE DEF c, key, current
  <2>5. RunQueueOK(r) /\ r.current = current /\ Removes(q, r, c, key)
    BY <2>1, <2>2, <2>3, <2>4, RemovalRemoves
  <2> QED BY <2>1, <2>2, <2>5 DEF current
<1> QED BY <1>1, <1>2

-----------------------------------------------------------------------------
(* The run queue beside the task table *)

LEMMA QueuedMeans ==
  ASSUME NEW q, NEW id
  PROVE  Queued(q, id) <=> \E c \in Classes : \E k \in Keys(q.trees[c]) : q.trees[c].tree[k] = id
BY DEF Queued, QueuedIn, KeysOf

(* Only what the table says of task id may differ, and not its class.      *)
Changes(ts, us, id) ==
  /\ DOMAIN us = DOMAIN ts
  /\ \A i \in DOMAIN ts : us[i].class = ts[i].class
  /\ \A i \in DOMAIN ts \ {id} : us[i] = ts[i]

LEMMA ChangeKeeps ==
  ASSUME NEW q, NEW ts, NEW us, NEW id, Changes(ts, us, id), InTheirTrees(q, ts)
  PROVE  /\ InTheirTrees(q, us)
         /\ ReadyOnce(q, ts) /\ ~Queued(q, id) => ReadyOnce(q, us)
         /\ ReadyOnce(q, ts) /\ us[id].state = "Ready" => ReadyOnce(q, us)
<1>1. InTheirTrees(q, us)
  BY DEF Changes, InTheirTrees
<1>2. ASSUME ReadyOnce(q, ts), ~Queued(q, id) PROVE ReadyOnce(q, us)
  BY <1>2, QueuedMeans DEF Changes, InTheirTrees, ReadyOnce
<1>3. ASSUME ReadyOnce(q, ts), us[id].state = "Ready" PROVE ReadyOnce(q, us)
  BY <1>3 DEF Changes, InTheirTrees, ReadyOnce
<1> QED BY <1>1, <1>2, <1>3

LEMMA AddingKeeps ==
  ASSUME NEW q, NEW r, NEW ts, NEW id \in DOMAIN ts, ts[id].class \in Classes,
         InTheirTrees(q, ts), Adds(q, r, ts[id].class, id)
  PROVE  /\ InTheirTrees(r, ts)
         /\ NonEmpty(r) # {}
         /\ ReadyOnce(q, ts) /\ ts[id].state = "Ready" /\ ~Queued(q, id) => ReadyOnce(r, ts)
<1> DEFINE class == ts[id].class
<1>1. PICK key \in Nat : TreeAdds(q.trees[class], r.trees[class], key, id)
  BY DEF Adds
<1>2. \A c \in Classes \ {class} : r.trees[c] = q.trees[c]
  BY DEF Adds
<1>3. /\ key \notin Keys(q.trees[class])
      /\ Keys(r.trees[class]) = Keys(q.trees[class]) \cup {key}
      /\ \A k \in Keys(r.trees[class]) :
           r.trees[class].tree[k] = IF k = key THEN id ELSE q.trees[class].tree[k]
  BY <1>1 DEF TreeAdds
<1>4. InTheirTrees(r, ts)
  BY <1>2, <1>3 DEF InTheirTrees
<1>5. NonEmpty(r) # {}
  BY <1>3 DEF NonEmpty
<1>6. ASSUME ReadyOnce(q, ts), ts[id].state = "Ready", ~Queued(q, id)
      PROVE  ReadyOnce(r, ts)
  <2> SUFFICES ASSUME NEW c \in Classes, NEW k \in Keys(r.trees[c])
               PROVE  /\ ts[r.trees[c].tree[k]].state = "Ready"
                      /\ \A l \in Keys(r.trees[c]) :
                           r.trees[c].tree[l] = r.trees[c].tree[k] => l = k
    BY DEF ReadyOnce
  <2>1. CASE c # class
    BY <1>2, <1>6, <2>1 DEF ReadyOnce
  <2>2. CASE c = class
    <3>1. \A l \in Keys(q.trees[class]) : q.trees[class].tree[l] # id
      BY <1>6, QueuedMeans
    <3> QED BY <1>3, <1>6, <2>2, <3>1 DEF ReadyOnce
  <2> QED BY <2>1, <2>2
<1> QED BY <1>4, <1>5, <1>6

LEMMA RemovingKeeps ==
  ASSUME NEW q, NEW r, NEW ts, NEW c \in Classes, NEW key \in Keys(q.trees[c]),
         InTheirTrees(q, ts), Removes(q, r, c, key)
  PROVE  /\ InTheirTrees(r, ts)
         /\ ReadyOnce(q, ts) => ReadyOnce(r, ts) /\ ~Queued(r, q.trees[c].tree[key])
<1>1. \A d \in Classes : \A k \in Keys(r.trees[d]) :
        k \in Keys(q.trees[d]) /\ r.trees[d].tree[k] = q.trees[d].tree[k]
  BY DEF Removes, TreeRemoves
<1>2. key \notin Keys(r.trees[c])
  BY DEF Removes, TreeRemoves
<1>3. InTheirTrees(r, ts)
  BY <1>1 DEF InTheirTrees
<1>4. ASSUME ReadyOnce(q, ts) PROVE ReadyOnce(r, ts)
  BY <1>1, <1>4 DEF ReadyOnce
<1>5. ASSUME ReadyOnce(q, ts) PROVE ~Queued(r, q.trees[c].tree[key])
  <2> SUFFICES ASSUME NEW d \in Classes, NEW k \in Keys(r.trees[d]),
                      r.trees[d].tree[k] = q.trees[c].tree[key]
               PROVE  FALSE
    BY QueuedMeans
  <2>1. k \in Keys(q.trees[d]) /\ q.trees[d].tree[k] = q.trees[c].tree[key]
    BY <1>1
  <2>2. d = c
    BY <2>1 DEF InTheirTrees
  <2>3. k = key
    BY <1>5, <2>1, <2>2 DEF ReadyOnce
  <2> QED BY <1>2, <2>2, <2>3
<1> QED BY <1>3, <1>4, <1>5

LEMMA TableFields ==
  ASSUME NEW ts, TableOK(ts), NEW i \in DOMAIN ts
  PROVE  /\ i \in Nat \ {NoTask}
         /\ ts[i].class \in Classes /\ ts[i].vruntime \in Nat
         /\ ts[i].state \in States /\ ts[i].flags \subseteq Flags
<1>1. DOMAIN ts \subseteq Nat \ {0}
  <2>1. DOMAIN ts = 1 .. Cardinality(DOMAIN ts)
    BY DEF TableOK
  <2> HIDE DEF TableOK
  <2>2. \A j \in 1 .. Cardinality(DOMAIN ts) : j \in Nat \ {0}
    OBVIOUS
  <2> QED BY <2>1, <2>2
<1>2. ts[i] \in TCB
  BY DEF TableOK
<1> QED BY <1>1, <1>2 DEF TCB, NoTask

LEMMA SetStateChanges ==
  ASSUME NEW ts, TableOK(ts), NEW id \in DOMAIN ts, NEW state \in States,
         NEW us, us = SetState(ts, id, state)
  PROVE  /\ TableOK(us)
         /\ Changes(ts, us, id)
         /\ us[id].state = state /\ us[id].flags = ts[id].flags
<1>1. us = [i \in DOMAIN ts |-> IF i = id THEN [ts[id] EXCEPT !.state = state] ELSE ts[i]]
  BY DEF SetState, TableOK
<1>2. ts[id] \in TCB
  BY DEF TableOK
<1>3. /\ [ts[id] EXCEPT !.state = state] \in TCB
      /\ [ts[id] EXCEPT !.state = state].state = state
      /\ [ts[id] EXCEPT !.state = state].class = ts[id].class
      /\ [ts[id] EXCEPT !.state = state].flags = ts[id].flags
  BY <1>2 DEF TCB
<1>4. DOMAIN us = DOMAIN ts /\ us[id] = [ts[id] EXCEPT !.state = state]
  BY <1>1
<1>5. Changes(ts, us, id)
  BY <1>1, <1>3, <1>4 DEF Changes
<1>6. TableOK(us)
  BY <1>1, <1>3, <1>4 DEF TableOK
<1> QED BY <1>3, <1>4, <1>5, <1>6

LEMMA PutKeeps ==
  ASSUME NEW q, NEW ts, TableOK(ts), RunQueueOK(q), InTheirTrees(q, ts),
         NEW id \in DOMAIN ts, ~Loops(q, ts, id), NEW r, r = Put(q, ts, id)
  PROVE  /\ RunQueueOK(r)
         /\ r.current = q.current
         /\ InTheirTrees(r, ts)
         /\ NonEmpty(r) # {}
         /\ ReadyOnce(q, ts) /\ ts[id].state = "Ready" /\ ~Queued(q, id) => ReadyOnce(r, ts)
<1>1. id \in Nat /\ ts[id].class \in Classes /\ ts[id].vruntime \in Nat
  BY TableFields
<1>2. RunQueueOK(r) /\ r.current = q.current /\ Adds(q, r, ts[id].class, id)
  BY <1>1, EnqueueAdds DEF Put, Loops
<1> QED BY <1>1, <1>2, AddingKeeps

NoneRuns(ts) == \A i \in DOMAIN ts : ts[i].state # "Running"

LEMMA PickKeeps ==
  ASSUME NEW q, NEW ts, TableOK(ts), RunQueueOK(q), InTheirTrees(q, ts), NonEmpty(q) # {},
         NEW r, r = RqPick(q), NEW us, us = SetState(ts, r.current, "Running")
  PROVE  /\ RunQueueOK(r)
         /\ TableOK(us)
         /\ r.current \in DOMAIN ts
         /\ Changes(ts, us, r.current)
         /\ InTheirTrees(r, us)
         /\ \A d \in Classes : d > ts[r.current].class => Keys(r.trees[d]) = {}
         /\ ReadyOnce(q, ts) /\ NoneRuns(ts) /\ ExitedAreZombies(ts) => Orderly(r, us)
<1>1. \A c \in Classes : \A k \in Keys(q.trees[c]) : q.trees[c].tree[k] \in Nat
  BY TableFields DEF InTheirTrees
<1>0. RunQueueOK(r) /\ \E c \in Classes : \E key \in Keys(q.trees[c]) :
        /\ Removes(q, r, c, key)
        /\ r.current = q.trees[c].tree[key]
        /\ \A d \in Classes : d > c => Keys(r.trees[d]) = {}
  BY <1>1, PickRemoves
<1> PICK c \in Classes : \E key \in Keys(q.trees[c]) :
        /\ Removes(q, r, c, key)
        /\ r.current = q.trees[c].tree[key]
        /\ \A d \in Classes : d > c => Keys(r.trees[d]) = {}
  BY <1>0
<1>2. PICK key \in Keys(q.trees[c]) :
        /\ Removes(q, r, c, key)
        /\ r.current = q.trees[c].tree[key]
        /\ \A d \in Classes : d > c => Keys(r.trees[d]) = {}
  OBVIOUS
<1>3. r.current \in DOMAIN ts /\ ts[r.current].class = c
  BY <1>2 DEF InTheirTrees
<1>4. /\ TableOK(us)
      /\ Changes(ts, us, r.current)
      /\ us[r.current].state = "Running" /\ us[r.current].flags = ts[r.current].flags
  BY <1>3, SetStateChanges DEF States
<1>5. InTheirTrees(r, ts) /\ (ReadyOnce(q, ts) => ReadyOnce(r, ts) /\ ~Queued(r, r.current))
  BY <1>2, RemovingKeeps
<1>6. InTheirTrees(r, us)
  BY <1>4, <1>5, ChangeKeeps
<1>7. ASSUME ReadyOnce(q, ts), NoneRuns(ts), ExitedAreZombies(ts) PROVE Orderly(r, us)
  <2>1. ReadyOnce(r, us)
    BY <1>4, <1>5, <1>7, ChangeKeeps
  <2>2. CurrentRuns(r, us)
    BY <1>4, <1>7 DEF CurrentRuns, NoneRuns, Changes
  <2>3. ts[r.current].state = "Ready"
    BY <1>2, <1>7 DEF ReadyOnce
  <2>4. "EXITED" \notin us[r.current].flags
    BY <1>3, <1>4, <1>7, <2>3 DEF ExitedAreZombies
  <2>5. ExitedAreZombies(us)
    <3> SUFFICES ASSUME NEW i \in DOMAIN us, i # r.current, "EXITED" \in us[i].flags
                 PROVE  us[i].state = "Zombie"
      BY <2>4 DEF ExitedAreZombies
    <3>1. i \in DOMAIN ts /\ us[i] = ts[i]
      BY <1>4 DEF Changes
    <3> QED BY <1>7, <3>1 DEF ExitedAreZombies
  <2> QED BY <2>1, <2>2, <2>5 DEF Orderly
<1> QED BY <1>0, <1>2, <1>3, <1>4, <1>6, <1>7

LEMMA DequeueKeeps ==
  ASSUME NEW q, NEW ts, NEW us, TableOK(ts), TableOK(us), RunQueueOK(q), InTheirTrees(q, ts),
         NEW id \in DOMAIN ts, Changes(ts, us, id), NEW r, r = RqDequeue(q, id)
  PROVE  /\ RunQueueOK(r)
         /\ InTheirTrees(r, us)
         /\ r.current \in {q.current, NoTask}
         /\ Orderly(q, ts) /\ us[id].state # "Running" /\ ExitedAreZombies(us) => Orderly(r, us)
<1>1. id \in Nat
  BY TableFields
<1>2. CASE ~Queued(q, id) /\ r = q
  <2>1. CurrentRuns(q, ts) /\ us[id].state # "Running" => CurrentRuns(q, us)
    BY DEF CurrentRuns, Changes
  <2>2. InTheirTrees(q, us) /\ (ReadyOnce(q, ts) => ReadyOnce(q, us))
    BY <1>2, ChangeKeeps
  <2>3. Orderly(q, ts) /\ us[id].state # "Running" /\ ExitedAreZombies(us) => Orderly(q, us)
    BY <2>1, <2>2 DEF Orderly
  <2> QED BY <1>2, <2>2, <2>3
<1>3. CASE /\ RunQueueOK(r)
           /\ r.current = IF q.current = id THEN NoTask ELSE q.current
           /\ \E c \in Classes : \E key \in Keys(q.trees[c]) :
                Removes(q, r, c, key) /\ q.trees[c].tree[key] = id
  <2> PICK c \in Classes : \E key \in Keys(q.trees[c]) :
             Removes(q, r, c, key) /\ q.trees[c].tree[key] = id
    BY <1>3
  <2>0. PICK key \in Keys(q.trees[c]) : Removes(q, r, c, key) /\ q.trees[c].tree[key] = id
    OBVIOUS
  <2>1. InTheirTrees(r, ts) /\ (ReadyOnce(q, ts) => ReadyOnce(r, ts) /\ ~Queued(r, id))
    BY <2>0, RemovingKeeps
  <2>2. InTheirTrees(r, us) /\ (ReadyOnce(q, ts) => ReadyOnce(r, us))
    BY <2>1, ChangeKeeps
  <2>3. CurrentRuns(q, ts) /\ us[id].state # "Running" => CurrentRuns(r, us)
    BY <1>3 DEF CurrentRuns, Changes
  <2>4. RunQueueOK(r) /\ r.current \in {q.current, NoTask}
    BY <1>3
  <2>5. Orderly(q, ts) /\ us[id].state # "Running" /\ ExitedAreZombies(us) => Orderly(r, us)
    BY <2>2, <2>3 DEF Orderly
  <2> QED BY <2>2, <2>4, <2>5
<1>4. \/ ~Queued(q, id) /\ r = q
      \/ /\ RunQueueOK(r)
         /\ r.current = IF q.current = id THEN NoTask ELSE q.current
         /\ \E c \in Classes : \E key \in Keys(q.trees[c]) :
              Removes(q, r, c, key) /\ q.trees[c].tree[key] = id
  BY <1>1, DequeueRemoves
<1> QED BY <1>2, <1>3, <1>4

-----------------------------------------------------------------------------
(* The steps *)

(* What the numbers beside the queue and the table are.                    *)
CountsOK ==
  /\ {total_schedules, context_switches, preemptions, ticks} \subseteq Nat
  /\ hung \in BOOLEAN
  /\ misuses \in 0 .. MaxMisuses

LEMMA InitIInv == Init => IInv
<1> SUFFICES ASSUME Init PROVE IInv
  OBVIOUS
<1>1. \A c \in Classes : Keys(rq.trees[c]) = {}
  BY DEF Init, EmptyRunQueue, EmptyTree, Keys
<1>2. EntriesIn(rq) = {}
  BY <1>1 DEF EntriesIn
<1>3. RunQueueOK(rq)
  <2>1. \A c \in Classes : TreeOK(rq.trees[c])
    BY <1>1, FS_EmptySet DEF Init, EmptyRunQueue, EmptyTree, TreeOK
  <2> QED BY <1>2, <2>1, FS_EmptySet DEF Init, EmptyRunQueue, RunQueueOK, NoTask
<1>4. DOMAIN tasks = {1} /\ tasks[1] = [NewTask(0) EXCEPT !.state = "Ready", !.flags = {"IS_IDLE"}]
  BY DEF Init, Idle
<1>5. tasks[1] \in TCB /\ tasks[1].state = "Ready" /\ tasks[1].flags = {"IS_IDLE"}
  <2>1. 0 \in Classes /\ BaseTimeSlice(0) \in Nat
    BY Numbers DEF Classes
  <2>2. tasks[1] = [state |-> "Ready", class |-> 0, vruntime |-> 0,
                    time_slice_remain |-> BaseTimeSlice(0), flags |-> {"IS_IDLE"},
                    wait_channel |-> 0]
    BY <1>4 DEF NewTask
  <2>3. {"IS_IDLE"} \in SUBSET Flags /\ "Ready" \in States
    BY DEF Flags, States
  <2> QED BY <2>1, <2>2, <2>3 DEF TCB
<1>6. TableOK(tasks)
  <2>1. Cardinality({1}) = 1 /\ 1 .. 1 = {1}
    BY FS_Singleton
  <2>2. tasks \in [{1} -> TCB]
    BY <1>4, <1>5 DEF Init, Idle
  <2> QED BY <1>4, <2>1, <2>2 DEF TableOK, Idle
<1>7. InTheirTrees(rq, tasks) /\ ReadyOnce(rq, tasks)
  BY <1>1 DEF InTheirTrees, ReadyOnce
<1>8. CurrentRuns(rq, tasks) /\ ExitedAreZombies(tasks)
  <2> SUFFICES ASSUME NEW i \in DOMAIN tasks
               PROVE  tasks[i].state # "Running" /\ "EXITED" \notin tasks[i].flags
    BY DEF CurrentRuns, ExitedAreZombies
  <2>1. i = 1
    BY <1>4
  <2> QED BY <1>5, <2>1
<1>9. CountsOK /\ rq.current \in TaskIds \cup {NoTask}
  <2>1. 0 \in 0 .. MaxMisuses
    BY ConstantsAssumption
  <2>2. CountsOK
    <3>1. {total_schedules, context_switches, preemptions, ticks} \subseteq Nat
      BY DEF Init
    <3>2. hung \in BOOLEAN /\ misuses \in 0 .. MaxMisuses
      BY <2>1 DEF Init
    <3> QED BY <3>1, <3>2 DEF CountsOK
  <2>3. rq.current = NoTask
    BY DEF Init, EmptyRunQueue
  <2> QED BY <2>2, <2>3
<1> QED BY <1>3, <1>6, <1>7, <1>8, <1>9 DEF IInv, TypeOK, CountsOK, Orderly

LEMMA CreateKeeps ==
  ASSUME IInv, NEW class \in ClassesUsed, CreateTask(class)
  PROVE  IInv'
<1> DEFINE n == Cardinality(TaskIds)
<1>1. n \in Nat /\ TaskIds = 1 .. n /\ tasks \in [TaskIds -> TCB]
  BY DEF IInv, TypeOK, TableOK, TaskIds
<1>2. NewTask(class) \in TCB /\ NewTask(class).state = "Created" /\ NewTask(class).flags = {}
  <2>1. class \in Classes /\ BaseTimeSlice(class) \in Nat
    BY ConstantsAssumption, Numbers
  <2> QED BY <2>1 DEF NewTask, TCB, States, Flags
<1>3. tasks' = [i \in TaskIds \cup {n + 1} |-> IF i = n + 1 THEN NewTask(class) ELSE tasks[i]]
  BY DEF CreateTask
<1> HIDE DEF n
<1>4. n + 1 \notin TaskIds /\ TaskIds \cup {n + 1} = 1 .. (n + 1)
  BY <1>1
<1>5. /\ DOMAIN tasks' = 1 .. (n + 1)
      /\ tasks'[n + 1] = NewTask(class)
      /\ \A i \in TaskIds : tasks'[i] = tasks[i]
  BY <1>3, <1>4
<1>6. TableOK(tasks')
  <2>1. Cardinality(1 .. (n + 1)) = n + 1
    BY <1>1, FS_Interval
  <2>2. Idle \in 1 .. (n + 1)
    BY <1>1 DEF Idle
  <2>3. tasks' \in [1 .. (n + 1) -> TCB]
    BY <1>1, <1>2, <1>3, <1>4
  <2> QED BY <1>1, <1>5, <2>1, <2>2, <2>3 DEF TableOK
<1>7. UNCHANGED <<rq, stats, ticks, hung, misuses>>
  BY DEF CreateTask
<1>8. InTheirTrees(rq', tasks')
  BY <1>4, <1>5, <1>7 DEF IInv, InTheirTrees, TaskIds
<1>9. ASSUME Orderly(rq, tasks) PROVE Orderly(rq', tasks')
  <2>1. ReadyOnce(rq', tasks')
    BY <1>5, <1>7, <1>9 DEF IInv, InTheirTrees, Orderly, ReadyOnce, TaskIds
  <2>2. CurrentRuns(rq', tasks') /\ ExitedAreZombies(tasks')
    BY <1>2, <1>4, <1>5, <1>7, <1>9
    DEF Orderly, CurrentRuns, ExitedAreZombies, TaskIds
  <2> QED BY <2>1, <2>2 DEF Orderly
<1>10. rq.current' \in TaskIds' \cup {NoTask}
  BY <1>4, <1>5, <1>7 DEF IInv, TypeOK, TaskIds
<1> QED BY <1>6, <1>7, <1>8, <1>9, <1>10 DEF IInv, TypeOK, stats

LEMMA EnqueueAsKeeps ==
  ASSUME IInv, NEW id \in TaskIds, NEW ts, TableOK(ts), Changes(tasks, ts, id),
         ts[id].state = "Ready", ts[id].flags = tasks[id].flags, tasks[id].state # "Zombie",
         EnqueueAs(id, ts)
  PROVE  /\ TableOK(tasks')
         /\ RunQueueOK(rq')
         /\ rq'.current = rq.current
         /\ TaskIds' = TaskIds
         /\ InTheirTrees(rq', tasks')
         /\ Orderly(rq, tasks) /\ ~Queued(rq, id) => Orderly(rq', tasks')
         /\ hung' \in BOOLEAN
         /\ UNCHANGED <<stats, ticks>>
<1>1. tasks' = ts /\ UNCHANGED <<stats, ticks>> /\ hung' \in BOOLEAN
  BY DEF EnqueueAs, IInv, TypeOK
<1>2. id \in DOMAIN ts /\ DOMAIN ts = TaskIds
  BY DEF Changes, TaskIds
<1>3. InTheirTrees(rq, ts) /\ (ReadyOnce(rq, tasks) => ReadyOnce(rq, ts))
  BY ChangeKeeps DEF IInv
<1>4. /\ RunQueueOK(rq') /\ rq'.current = rq.current
      /\ InTheirTrees(rq', ts)
      /\ ReadyOnce(rq, tasks) /\ ~Queued(rq, id) => ReadyOnce(rq', ts)
  <2>1. CASE UNCHANGED rq
    BY <1>3, <2>1 DEF IInv, TypeOK
  <2>2. CASE ~Loops(rq, ts, id) /\ rq' = Put(rq, ts, id)
    BY <1>2, <1>3, <2>2, PutKeeps DEF IInv, TypeOK
  <2> QED BY <2>1, <2>2 DEF EnqueueAs
<1>5. CurrentRuns(rq, tasks) => CurrentRuns(rq', ts)
  BY <1>4 DEF CurrentRuns, Changes
<1>6. ExitedAreZombies(tasks) => ExitedAreZombies(ts)
  BY DEF ExitedAreZombies, Changes, TaskIds
<1> QED BY <1>1, <1>2, <1>4, <1>5, <1>6 DEF Orderly, TaskIds

LEMMA EnqueueKeeps ==
  ASSUME IInv, NEW id \in UserTasks, Enqueue(id)
  PROVE  IInv'
<1> DEFINE ts == SetState(tasks, id, "Ready")
<1>1. id \in TaskIds
  BY DEF UserTasks
<1>2. /\ TableOK(ts) /\ Changes(tasks, ts, id)
      /\ ts[id].state = "Ready" /\ ts[id].flags = tasks[id].flags
  BY <1>1, SetStateChanges DEF IInv, TypeOK, States, TaskIds
<1>3. EnqueueAs(id, ts) /\ tasks[id].state # "Zombie"
  BY DEF Enqueue, CanTransition
<1> HIDE DEF ts
<1>4. /\ TableOK(tasks') /\ RunQueueOK(rq') /\ rq'.current = rq.current
      /\ TaskIds' = TaskIds
      /\ InTheirTrees(rq', tasks')
      /\ Orderly(rq, tasks) /\ ~Queued(rq, id) => Orderly(rq', tasks')
      /\ hung' \in BOOLEAN
      /\ UNCHANGED <<stats, ticks>>
  BY <1>1, <1>2, <1>3, EnqueueAsKeeps
<1>5. /\ misuses' \in 0 .. MaxMisuses
      /\ misuses' = 0 => misuses = 0 /\ ~Queued(rq, id)
  BY ConstantsAssumption DEF Enqueue, CountMisuse, IInv, TypeOK
<1> QED BY <1>4, <1>5 DEF IInv, TypeOK, stats

LEMMA WakeUpKeeps ==
  ASSUME IInv, NEW id \in UserTasks, WakeUp(id)
  PROVE  IInv'
<1> DEFINE ts == [tasks EXCEPT ![id].state = "Ready", ![id].wait_channel = 0]
<1>1. id \in TaskIds /\ tasks[id].state = "Blocked"
  BY DEF UserTasks, WakeUp
<1>2. tasks \in [TaskIds -> TCB]
  BY DEF IInv, TypeOK, TableOK, TaskIds
<1>3. /\ ts[id] \in TCB
      /\ ts[id].state = "Ready" /\ ts[id].flags = tasks[id].flags
      /\ ts[id].class = tasks[id].class
  BY <1>1, <1>2 DEF TCB, States
<1>4. DOMAIN ts = TaskIds /\ \A i \in TaskIds \ {id} : ts[i] = tasks[i]
  BY <1>2
<1>5. ts \in [TaskIds -> TCB]
  BY <1>2, <1>3
<1>6. EnqueueAs(id, ts) /\ UNCHANGED misuses
  BY DEF WakeUp
<1> HIDE DEF ts
<1>7. TableOK(ts) /\ Changes(tasks, ts, id)
  BY <1>3, <1>4, <1>5 DEF IInv, TypeOK, TableOK, Changes, TaskIds
<1>8. /\ TableOK(tasks') /\ RunQueueOK(rq') /\ rq'.current = rq.current
      /\ TaskIds' = TaskIds
      /\ InTheirTrees(rq', tasks')
      /\ Orderly(rq, tasks) /\ ~Queued(rq, id) => Orderly(rq', tasks')
      /\ hung' \in BOOLEAN
      /\ UNCHANGED <<stats, ticks>>
  BY <1>1, <1>3, <1>6, <1>7, EnqueueAsKeeps
<1>9. Orderly(rq, tasks) => ~Queued(rq, id)
  BY <1>1, QueuedMeans DEF Orderly, ReadyOnce
<1> QED BY <1>6, <1>8, <1>9 DEF IInv, TypeOK, stats

(* dequeue, sleep and exit, which differ in what the table says after them *)
LEMMA LeavingKeeps ==
  ASSUME IInv, NEW id \in TaskIds, TableOK(tasks'), Changes(tasks, tasks', id),
         tasks'[id].state # "Running",
         "EXITED" \in tasks'[id].flags =>
           tasks'[id].state = "Zombie" \/ ("EXITED" \in tasks[id].flags /\ tasks[id].state # "Zombie"),
         rq' = RqDequeue(rq, id), UNCHANGED <<stats, ticks, hung, misuses>>
  PROVE  IInv'
<1>1. ExitedAreZombies(tasks) => ExitedAreZombies(tasks')
  BY DEF ExitedAreZombies, Changes, TaskIds
<1>2. /\ RunQueueOK(rq')
      /\ InTheirTrees(rq', tasks')
      /\ rq'.current \in {rq.current, NoTask}
      /\ Orderly(rq, tasks) /\ ExitedAreZombies(tasks') => Orderly(rq', tasks')
  BY DequeueKeeps DEF IInv, TypeOK, TaskIds
<1>3. Orderly(rq, tasks) => Orderly(rq', tasks')
  BY <1>1, <1>2 DEF Orderly
<1>4. TaskIds' = TaskIds
  BY DEF Changes, TaskIds
<1> QED BY <1>2, <1>3, <1>4 DEF IInv, TypeOK, stats

LEMMA DequeueActionKeeps ==
  ASSUME IInv, NEW id \in UserTasks, Dequeue(id)
  PROVE  IInv'
<1>1. id \in TaskIds /\ tasks' = SetState(tasks, id, "Ready") /\ tasks[id].state # "Zombie"
  BY DEF UserTasks, Dequeue
<1>2. /\ TableOK(tasks') /\ Changes(tasks, tasks', id)
      /\ tasks'[id].state = "Ready" /\ tasks'[id].flags = tasks[id].flags
  BY <1>1, SetStateChanges DEF IInv, TypeOK, States, TaskIds
<1>3. rq' = RqDequeue(rq, id) /\ UNCHANGED <<stats, ticks, hung, misuses>>
  BY DEF Dequeue
<1> QED BY <1>1, <1>2, <1>3, LeavingKeeps

LEMMA SleepKeeps ==
  ASSUME IInv, NEW id \in UserTasks, Sleep(id)
  PROVE  IInv'
<1>1. /\ id \in TaskIds
      /\ tasks' = [tasks EXCEPT ![id].state = "Blocked", ![id].wait_channel = 1]
      /\ tasks[id].state # "Zombie"
  BY DEF UserTasks, Sleep
<1>2. tasks \in [TaskIds -> TCB]
  BY DEF IInv, TypeOK, TableOK, TaskIds
<1>3. /\ tasks'[id] \in TCB
      /\ tasks'[id].state = "Blocked" /\ tasks'[id].flags = tasks[id].flags
      /\ tasks'[id].class = tasks[id].class
  BY <1>1, <1>2 DEF TCB, States
<1>4. DOMAIN tasks' = TaskIds /\ \A i \in TaskIds \ {id} : tasks'[i] = tasks[i]
  BY <1>1, <1>2
<1>5. tasks' \in [TaskIds -> TCB]
  BY <1>1, <1>2, <1>3
<1>6. TableOK(tasks') /\ Changes(tasks, tasks', id)
  BY <1>3, <1>4, <1>5 DEF IInv, TypeOK, TableOK, Changes, TaskIds
<1>7. rq' = RqDequeue(rq, id) /\ UNCHANGED <<stats, ticks, hung, misuses>>
  BY DEF Sleep
<1> QED BY <1>1, <1>3, <1>6, <1>7, LeavingKeeps

LEMMA ExitKeeps ==
  ASSUME IInv, NEW id \in UserTasks, Exit(id)
  PROVE  IInv'
<1>1. /\ id \in TaskIds
      /\ tasks' = [tasks EXCEPT ![id].state = "Zombie", ![id].flags = @ \cup {"EXITED"}]
  BY DEF UserTasks, Exit
<1>2. tasks \in [TaskIds -> TCB]
  BY DEF IInv, TypeOK, TableOK, TaskIds
<1>3. /\ tasks'[id] \in TCB
      /\ tasks'[id].state = "Zombie"
      /\ tasks'[id].class = tasks[id].class
  <2>1. tasks[id].flags \cup {"EXITED"} \in SUBSET Flags
    BY <1>1, <1>2 DEF TCB, Flags
  <2> QED BY <1>1, <1>2, <2>1 DEF TCB, States
<1>4. DOMAIN tasks' = TaskIds /\ \A i \in TaskIds \ {id} : tasks'[i] = tasks[i]
  BY <1>1, <1>2
<1>5. tasks' \in [TaskIds -> TCB]
  BY <1>1, <1>2, <1>3
<1>6. TableOK(tasks') /\ Changes(tasks, tasks', id)
  BY <1>3, <1>4, <1>5 DEF IInv, TypeOK, TableOK, Changes, TaskIds
<1>7. rq' = RqDequeue(rq, id) /\ UNCHANGED <<stats, ticks, hung, misuses>>
  BY DEF Exit
<1> QED BY <1>1, <1>3, <1>6, <1>7, LeavingKeeps

(* The task that is current, if it is Running                              *)
LEMMA CurrentIsTask ==
  ASSUME IInv, CurrentRunning
  PROVE  rq.current \in TaskIds /\ tasks[rq.current].state = "Running"
BY DEF IInv, TypeOK, CurrentRunning

LEMMA NobodyElseRuns ==
  ASSUME IInv, Orderly(rq, tasks)
  PROVE  ~CurrentRunning => NoneRuns(tasks)
<1> SUFFICES ASSUME NEW i \in TaskIds, tasks[i].state = "Running" PROVE CurrentRunning
  BY DEF NoneRuns, TaskIds
<1>1. rq.current = i
  BY DEF Orderly, CurrentRuns, TaskIds
<1>2. i # NoTask
  BY TableFields DEF IInv, TypeOK, TaskIds
<1> QED BY <1>1, <1>2 DEF CurrentRunning

(* The current task goes back to the queue, as in yield and schedule: us   *)
(* is the table in which it is Ready again, and q the queue with it.       *)
LEMMA BackKeeps ==
  ASSUME IInv, CurrentRunning, NEW us, TableOK(us), Changes(tasks, us, rq.current),
         us[rq.current].state = "Ready",
         "EXITED" \in us[rq.current].flags => "EXITED" \in tasks[rq.current].flags
  PROVE  /\ InTheirTrees(rq, us)
         /\ Orderly(rq, tasks) =>
              ReadyOnce(rq, us) /\ NoneRuns(us) /\ ExitedAreZombies(us) /\ ~Queued(rq, rq.current)
         /\ ~Loops(rq, us, rq.current) =>
              LET q == Put(rq, us, rq.current)
              IN /\ RunQueueOK(q)
                 /\ q.current = rq.current
                 /\ InTheirTrees(q, us)
                 /\ NonEmpty(q) # {}
                 /\ Orderly(rq, tasks) => ReadyOnce(q, us)
<1>1. rq.current \in TaskIds /\ tasks[rq.current].state = "Running"
  BY CurrentIsTask
<1>2. rq.current \in DOMAIN us /\ DOMAIN us = TaskIds
  BY <1>1 DEF Changes, TaskIds
<1>3. InTheirTrees(rq, us) /\ (ReadyOnce(rq, tasks) => ReadyOnce(rq, us))
  BY ChangeKeeps DEF IInv
<1>4. ASSUME Orderly(rq, tasks)
      PROVE  NoneRuns(us) /\ ExitedAreZombies(us) /\ ~Queued(rq, rq.current)
  <2>1. NoneRuns(us)
    BY <1>4 DEF Orderly, CurrentRuns, NoneRuns, Changes
  <2>2. ExitedAreZombies(us)
    BY <1>1, <1>4 DEF Orderly, ExitedAreZombies, Changes, TaskIds
  <2>3. ~Queued(rq, rq.current)
    BY <1>1, <1>4, QueuedMeans DEF Orderly, ReadyOnce
  <2> QED BY <2>1, <2>2, <2>3
<1>5. ASSUME ~Loops(rq, us, rq.current), NEW q, q = Put(rq, us, rq.current)
      PROVE  /\ RunQueueOK(q)
             /\ q.current = rq.current
             /\ InTheirTrees(q, us)
             /\ NonEmpty(q) # {}
             /\ Orderly(rq, tasks) => ReadyOnce(q, us)
  <2>1. RunQueueOK(rq)
    BY DEF IInv, TypeOK
  <2> QED BY <1>2, <1>3, <1>4, <1>5, <2>1, PutKeeps DEF Orderly
<1> QED BY <1>3, <1>4, <1>5 DEF Orderly

(* After a pick: the invariant, and what HighestClassRuns says.            *)
LEMMA PickIntoKeeps ==
  ASSUME IInv, NEW q, NEW ts, TableOK(ts), DOMAIN ts = TaskIds, RunQueueOK(q),
         InTheirTrees(q, ts), NonEmpty(q) # {}, PickInto(q, ts), CountsOK',
         \A i \in TaskIds :
           /\ ts[i].class = tasks[i].class
           /\ ts[i].state = "Running" => tasks[i].state = "Running",
         misuses' = 0 => misuses = 0,
         misuses' = 0 /\ Orderly(rq, tasks) =>
           ReadyOnce(q, ts) /\ NoneRuns(ts) /\ ExitedAreZombies(ts)
  PROVE  IInv' /\ StartsHighest
<1>1. rq' = RqPick(q) /\ tasks' = SetState(ts, rq'.current, "Running")
  BY DEF PickInto
<1>2. /\ RunQueueOK(rq')
      /\ TableOK(tasks')
      /\ rq'.current \in DOMAIN ts
      /\ Changes(ts, tasks', rq'.current)
      /\ InTheirTrees(rq', tasks')
      /\ \A d \in Classes : d > ts[rq'.current].class => Keys(rq'.trees[d]) = {}
      /\ ReadyOnce(q, ts) /\ NoneRuns(ts) /\ ExitedAreZombies(ts) => Orderly(rq', tasks')
  BY <1>1, PickKeeps
<1>3. TaskIds' = TaskIds
  BY <1>2 DEF Changes, TaskIds
<1>4. misuses' = 0 => Orderly(rq', tasks')
  BY <1>2 DEF IInv
<1>5. StartsHighest
  <2> SUFFICES ASSUME NEW i \in TaskIds, tasks[i].state # "Running", tasks'[i].state = "Running",
                      NEW c \in Classes, c > tasks[i].class
               PROVE  Keys(rq'.trees[c]) = {}
    BY DEF StartsHighest
  <2>1. i = rq'.current
    BY <1>2 DEF Changes, TaskIds
  <2> QED BY <1>2, <2>1
<1> QED BY <1>2, <1>3, <1>4, <1>5 DEF IInv, TypeOK, CountsOK

LEMMA CurrentCleared ==
  ASSUME NEW q, RunQueueOK(q), NEW r, r = [q EXCEPT !.current = NoTask]
  PROVE  /\ RunQueueOK(r)
         /\ r.current = NoTask
         /\ NonEmpty(r) = NonEmpty(q)
         /\ \A ts : InTheirTrees(r, ts) <=> InTheirTrees(q, ts)
         /\ \A ts : ReadyOnce(r, ts) <=> ReadyOnce(q, ts)
<1>1. r = [current |-> NoTask, trees |-> [c \in Classes |-> q.trees[c]],
           min_vruntime |-> q.min_vruntime, nr_running |-> q.nr_running]
  BY DEF RunQueueOK
<1>2. r.trees = q.trees
  BY <1>1 DEF RunQueueOK
<1>3. EntriesIn(r) = EntriesIn(q)
  BY <1>2 DEF EntriesIn
<1>4. RunQueueOK(r)
  BY <1>1, <1>2, <1>3 DEF RunQueueOK, NoTask
<1> QED BY <1>1, <1>2, <1>4 DEF NonEmpty, InTheirTrees, ReadyOnce

LEMMA PickNextKeeps ==
  ASSUME IInv, PickNext
  PROVE  IInv' /\ StartsHighest
<1>1. /\ TableOK(tasks) /\ RunQueueOK(rq) /\ InTheirTrees(rq, tasks)
      /\ NonEmpty(rq) # {} /\ PickInto(rq, tasks)
  BY DEF IInv, TypeOK, PickNext
<1>2. CountsOK' /\ (misuses' = 0 => misuses = 0 /\ NoneRuns(tasks))
  <2>1. UNCHANGED <<stats, ticks, hung>>
    BY DEF PickNext
  <2>2. /\ misuses' \in 0 .. MaxMisuses
        /\ misuses' = 0 => misuses = 0 /\ ~\E i \in TaskIds : tasks[i].state = "Running"
    BY ConstantsAssumption DEF PickNext, CountMisuse, IInv, TypeOK
  <2> QED BY <2>1, <2>2 DEF IInv, TypeOK, CountsOK, NoneRuns, stats, TaskIds
<1>3. DOMAIN tasks = TaskIds
  BY DEF TaskIds
<1> QED BY <1>1, <1>2, <1>3, PickIntoKeeps DEF Orderly

LEMMA YieldKeeps ==
  ASSUME IInv, Yield
  PROVE  IInv' /\ StartsHighest
<1>1. CountsOK' /\ misuses' = misuses
  <2>1. context_switches' \in Nat
    BY DEF Yield, IInv, TypeOK
  <2> QED BY <2>1 DEF Yield, IInv, TypeOK, CountsOK
<1>2. TableOK(tasks) /\ RunQueueOK(rq) /\ InTheirTrees(rq, tasks)
  BY DEF IInv, TypeOK
<1>3. CASE ~CurrentRunning
  <2>1. NonEmpty(rq) # {} /\ PickInto(rq, tasks)
    BY <1>3 DEF Yield
  <2>2. DOMAIN tasks = TaskIds
    BY DEF TaskIds
  <2> QED BY <1>1, <1>2, <1>3, <2>1, <2>2, NobodyElseRuns, PickIntoKeeps DEF Orderly
<1>4. CASE CurrentRunning
  <2> DEFINE back == SetState(tasks, rq.current, "Ready")
             put == Put(rq, back, rq.current)
             q == [put EXCEPT !.current = NoTask]
  <2>1. rq.current \in TaskIds /\ tasks[rq.current].state = "Running"
    BY <1>4, CurrentIsTask
  <2>2. /\ TableOK(back) /\ Changes(tasks, back, rq.current)
        /\ back[rq.current].state = "Ready" /\ back[rq.current].flags = tasks[rq.current].flags
    BY <1>2, <2>1, SetStateChanges DEF TaskIds, States
  <2>3. ~Loops(rq, back, rq.current) /\ PickInto(q, back)
    BY <1>4 DEF Yield
  <2> HIDE DEF back
  <2>4. /\ RunQueueOK(put) /\ InTheirTrees(put, back) /\ NonEmpty(put) # {}
        /\ Orderly(rq, tasks) => ReadyOnce(put, back)
        /\ Orderly(rq, tasks) => NoneRuns(back) /\ ExitedAreZombies(back)
    BY <1>4, <2>2, <2>3, BackKeeps
  <2> HIDE DEF put
  <2>5. /\ RunQueueOK(q) /\ InTheirTrees(q, back) /\ NonEmpty(q) # {}
        /\ Orderly(rq, tasks) => ReadyOnce(q, back)
    BY <2>4, CurrentCleared
  <2> HIDE DEF q
  <2>6. /\ DOMAIN back = TaskIds
        /\ \A i \in TaskIds :
             /\ back[i].class = tasks[i].class
             /\ back[i].state = "Running" => tasks[i].state = "Running"
    BY <2>1, <2>2 DEF Changes, TaskIds
  <2> QED BY <1>1, <2>2, <2>3, <2>4, <2>5, <2>6, PickIntoKeeps
<1> QED BY <1>3, <1>4

(* yield and schedule when the search for a key does not end               *)
LEMMA LoopKeeps ==
  ASSUME IInv, CurrentRunning, TableOK(tasks'), Changes(tasks, tasks', rq.current),
         tasks'[rq.current].state = "Ready",
         "EXITED" \in tasks'[rq.current].flags => "EXITED" \in tasks[rq.current].flags,
         CountsOK', UNCHANGED <<rq, misuses>>
  PROVE  IInv'
<1>1. /\ InTheirTrees(rq, tasks')
      /\ Orderly(rq, tasks) =>
           ReadyOnce(rq, tasks') /\ NoneRuns(tasks') /\ ExitedAreZombies(tasks')
  BY BackKeeps
<1>2. Orderly(rq, tasks) => Orderly(rq, tasks')
  BY <1>1 DEF Orderly, CurrentRuns, NoneRuns
<1>3. TaskIds' = TaskIds
  BY DEF Changes, TaskIds
<1> QED BY <1>1, <1>2, <1>3 DEF IInv, TypeOK, CountsOK

LEMMA YieldLoopsKeeps ==
  ASSUME IInv, YieldLoops
  PROVE  IInv'
<1>1. rq.current \in TaskIds /\ CurrentRunning
  BY CurrentIsTask DEF YieldLoops
<1>2. tasks' = SetState(tasks, rq.current, "Ready") /\ UNCHANGED <<rq, misuses>>
  BY DEF YieldLoops
<1>3. /\ TableOK(tasks') /\ Changes(tasks, tasks', rq.current)
      /\ tasks'[rq.current].state = "Ready" /\ tasks'[rq.current].flags = tasks[rq.current].flags
  BY <1>1, <1>2, SetStateChanges DEF IInv, TypeOK, States, TaskIds
<1>4. CountsOK'
  BY DEF YieldLoops, IInv, TypeOK, CountsOK, stats
<1> QED BY <1>1, <1>2, <1>3, <1>4, LoopKeeps

LEMMA PreemptedIs ==
  ASSUME IInv, CurrentRunning
  PROVE  /\ TableOK(Preempted) /\ Changes(tasks, Preempted, rq.current)
         /\ Preempted[rq.current].state = "Ready"
         /\ Preempted[rq.current].flags \subseteq tasks[rq.current].flags
<1>1. rq.current \in TaskIds
  BY CurrentIsTask
<1>2. tasks \in [TaskIds -> TCB]
  BY DEF IInv, TypeOK, TableOK, TaskIds
<1>3. /\ Preempted[rq.current] \in TCB
      /\ Preempted[rq.current].state = "Ready"
      /\ Preempted[rq.current].class = tasks[rq.current].class
      /\ Preempted[rq.current].flags = tasks[rq.current].flags \ {"NEED_RESCHED"}
  <2> DEFINE t == tasks[rq.current]
             flags == t.flags \ {"NEED_RESCHED"}
  <2>1. t \in TCB /\ flags \in SUBSET Flags
    BY <1>1, <1>2 DEF TCB
  <2>2. Preempted[rq.current] = [t EXCEPT !.state = "Ready", !.flags = flags]
    BY <1>1, <1>2 DEF Preempted
  <2>3. "Ready" \in States
    BY DEF States
  <2> HIDE DEF t, flags
  <2>4. /\ [t EXCEPT !.state = "Ready", !.flags = flags] \in TCB
        /\ [t EXCEPT !.state = "Ready", !.flags = flags].state = "Ready"
        /\ [t EXCEPT !.state = "Ready", !.flags = flags].class = t.class
        /\ [t EXCEPT !.state = "Ready", !.flags = flags].flags = flags
    BY <2>1, <2>3 DEF TCB
  <2> QED BY <2>2, <2>4 DEF t, flags
<1>4. DOMAIN Preempted = TaskIds /\ \A i \in TaskIds \ {rq.current} : Preempted[i] = tasks[i]
  BY <1>2 DEF Preempted
<1>5. Preempted \in [TaskIds -> TCB]
  BY <1>1, <1>2, <1>3 DEF Preempted
<1>6. TableOK(Preempted) /\ Changes(tasks, Preempted, rq.current)
  BY <1>3, <1>4, <1>5 DEF IInv, TypeOK, TableOK, Changes, TaskIds
<1> QED BY <1>3, <1>6

LEMMA ScheduleLoopsKeeps ==
  ASSUME IInv, ScheduleLoops
  PROVE  IInv'
<1>1. CurrentRunning /\ tasks' = Preempted /\ UNCHANGED <<rq, misuses>>
  BY DEF ScheduleLoops
<1>2. CountsOK'
  <2>1. total_schedules' \in Nat
    BY DEF ScheduleLoops, IInv, TypeOK
  <2> QED BY <2>1 DEF ScheduleLoops, IInv, TypeOK, CountsOK
<1> QED BY <1>1, <1>2, PreemptedIs, LoopKeeps

LEMMA ScheduleSwitchesKeeps ==
  ASSUME IInv, ScheduleSwitches
  PROVE  IInv' /\ StartsHighest
<1>1. CountsOK' /\ misuses' = misuses
  <2>1. total_schedules' \in Nat /\ context_switches' \in Nat /\ preemptions' \in Nat
    BY DEF ScheduleSwitches, PreemptionCount, IInv, TypeOK
  <2> QED BY <2>1 DEF ScheduleSwitches, IInv, TypeOK, CountsOK
<1>2. TableOK(tasks) /\ RunQueueOK(rq) /\ InTheirTrees(rq, tasks) /\ DOMAIN tasks = TaskIds
  BY DEF IInv, TypeOK, TaskIds
<1>3. CASE ~CurrentRunning
  <2> DEFINE cleared == [rq EXCEPT !.current = NoTask]
  <2>1. /\ RunQueueOK(cleared) /\ cleared.current = NoTask /\ InTheirTrees(cleared, tasks)
        /\ NonEmpty(cleared) = NonEmpty(rq)
        /\ ReadyOnce(rq, tasks) => ReadyOnce(cleared, tasks)
    BY <1>2, CurrentCleared
  <2>2. \/ rq' = cleared /\ UNCHANGED tasks
        \/ NonEmpty(rq) # {} /\ PickInto(cleared, tasks)
    BY <1>3 DEF ScheduleSwitches
  <2> HIDE DEF cleared
  <2>3. CASE rq' = cleared /\ UNCHANGED tasks
    <3>1. Orderly(rq, tasks) => Orderly(rq', tasks')
      BY <1>3, <2>1, <2>3, NobodyElseRuns DEF Orderly, CurrentRuns, NoneRuns
    <3>2. StartsHighest
      BY <2>3 DEF StartsHighest
    <3> QED BY <1>1, <2>1, <2>3, <3>1, <3>2 DEF IInv, TypeOK, CountsOK, TaskIds
  <2>4. CASE NonEmpty(rq) # {} /\ PickInto(cleared, tasks)
    BY <1>1, <1>2, <1>3, <2>1, <2>4, NobodyElseRuns, PickIntoKeeps DEF Orderly
  <2> QED BY <2>2, <2>3, <2>4
<1>4. CASE CurrentRunning
  <2> DEFINE put == Put(rq, Preempted, rq.current)
             q == [put EXCEPT !.current = NoTask]
  <2>1. rq.current \in TaskIds /\ tasks[rq.current].state = "Running"
    BY <1>4, CurrentIsTask
  <2>2. /\ TableOK(Preempted) /\ Changes(tasks, Preempted, rq.current)
        /\ Preempted[rq.current].state = "Ready"
        /\ "EXITED" \in Preempted[rq.current].flags => "EXITED" \in tasks[rq.current].flags
    BY <1>4, PreemptedIs
  <2>3. ~Loops(rq, Preempted, rq.current) /\ (NonEmpty(put) = {} \/ PickInto(q, Preempted))
    BY <1>4 DEF ScheduleSwitches
  <2>4. /\ RunQueueOK(put) /\ InTheirTrees(put, Preempted) /\ NonEmpty(put) # {}
        /\ Orderly(rq, tasks) => ReadyOnce(put, Preempted)
        /\ Orderly(rq, tasks) => NoneRuns(Preempted) /\ ExitedAreZombies(Preempted)
    BY <1>4, <2>2, <2>3, BackKeeps
  <2> HIDE DEF put
  <2>5. /\ RunQueueOK(q) /\ InTheirTrees(q, Preempted) /\ NonEmpty(q) # {}
        /\ Orderly(rq, tasks) => ReadyOnce(q, Preempted)
    BY <2>4, CurrentCleared
  <2> HIDE DEF q
  <2>6. /\ DOMAIN Preempted = TaskIds
        /\ \A i \in TaskIds :
             /\ Preempted[i].class = tasks[i].class
             /\ Preempted[i].state = "Running" => tasks[i].state = "Running"
    BY <2>1, <2>2 DEF Changes, TaskIds
  <2> QED BY <1>1, <2>2, <2>3, <2>4, <2>5, <2>6, PickIntoKeeps
<1> QED BY <1>3, <1>4

LEMMA TimerTickKeeps ==
  ASSUME IInv, TimerTick
  PROVE  IInv'
<1> DEFINE c == rq.current
           t == tasks[c]
           vruntime == t.vruntime + VruntimeOfTick(t.class)
           slice == SliceAfterTick(t.time_slice_remain)
           flags == IF t.time_slice_remain > Tick THEN t.flags ELSE t.flags \cup {"NEED_RESCHED"}
           u == [t EXCEPT !.vruntime = vruntime, !.time_slice_remain = slice, !.flags = flags]
<1>1. c \in TaskIds /\ t.state = "Running"
  BY CurrentIsTask DEF TimerTick
<1>2. tasks \in [TaskIds -> TCB]
  BY DEF IInv, TypeOK, TableOK, TaskIds
<1>3. /\ u \in TCB /\ u.state = "Running" /\ u.class = t.class
      /\ u.flags \subseteq t.flags \cup {"NEED_RESCHED"}
  <2>1. t \in TCB
    BY <1>1, <1>2
  <2>2. vruntime \in Nat /\ slice \in Nat
    BY <2>1, Numbers DEF TCB
  <2>3. flags \in SUBSET Flags /\ flags \subseteq t.flags \cup {"NEED_RESCHED"}
    BY <2>1 DEF TCB, Flags
  <2> HIDE DEF t, vruntime, slice, flags
  <2> QED BY <1>1, <2>1, <2>2, <2>3 DEF TCB
<1>4. tasks' = [tasks EXCEPT ![c] = u] /\ UNCHANGED <<rq, stats, hung, misuses>>
  BY DEF TimerTick
<1>5. CountsOK'
  BY <1>4 DEF TimerTick, IInv, TypeOK, CountsOK, stats
<1> HIDE DEF u, vruntime, slice, flags, t, c
<1>6. tasks'[c] = u /\ DOMAIN tasks' = TaskIds /\ \A i \in TaskIds \ {c} : tasks'[i] = tasks[i]
  BY <1>1, <1>2, <1>4
<1>7. tasks' \in [TaskIds -> TCB]
  BY <1>1, <1>2, <1>3, <1>4
<1>8. TableOK(tasks') /\ Changes(tasks, tasks', c)
  BY <1>3, <1>6, <1>7 DEF IInv, TypeOK, TableOK, Changes, TaskIds, t
<1>9. /\ InTheirTrees(rq, tasks')
      /\ ReadyOnce(rq, tasks) /\ ~Queued(rq, c) => ReadyOnce(rq, tasks')
  BY <1>8, ChangeKeeps DEF IInv
<1>10. ASSUME Orderly(rq, tasks) PROVE Orderly(rq, tasks')
  <2>1. ~Queued(rq, c)
    BY <1>1, <1>10, QueuedMeans DEF Orderly, ReadyOnce, t
  <2>2. CurrentRuns(rq, tasks') /\ ExitedAreZombies(tasks')
    BY <1>1, <1>3, <1>6, <1>10 DEF Orderly, CurrentRuns, ExitedAreZombies, TaskIds, t, c
  <2> QED BY <1>9, <1>10, <2>1, <2>2 DEF Orderly
<1>11. TaskIds' = TaskIds
  BY <1>6 DEF TaskIds
<1> QED BY <1>4, <1>5, <1>8, <1>9, <1>10, <1>11 DEF IInv, TypeOK, CountsOK

(* Nothing starts to run but what is picked.                               *)
LEMMA OnlyPicksStart ==
  ASSUME IInv
  PROVE  /\ \A class \in ClassesUsed : CreateTask(class) => StartsHighest
         /\ \A id \in UserTasks :
              Enqueue(id) \/ Dequeue(id) \/ Sleep(id) \/ WakeUp(id) \/ Exit(id) => StartsHighest
         /\ YieldLoops \/ ScheduleKeeps \/ ScheduleLoops \/ TimerTick => StartsHighest
         /\ UNCHANGED vars => StartsHighest
<1>1. tasks \in [TaskIds -> TCB] /\ \A i \in TaskIds : i # Cardinality(TaskIds) + 1
  BY DEF IInv, TypeOK, TableOK, TaskIds
<1>2. ASSUME \A i \in TaskIds : tasks'[i].state = "Running" => tasks[i].state = "Running"
      PROVE  StartsHighest
  BY <1>2 DEF StartsHighest
<1>3. ASSUME NEW class \in ClassesUsed, CreateTask(class) PROVE StartsHighest
  BY <1>1, <1>2, <1>3 DEF CreateTask
<1>4. ASSUME NEW id \in UserTasks,
             Enqueue(id) \/ Dequeue(id) \/ Sleep(id) \/ WakeUp(id) \/ Exit(id)
      PROVE  StartsHighest
  <2>1. CASE Enqueue(id)
    BY <1>1, <1>2, <2>1 DEF Enqueue, EnqueueAs, SetState, TCB
  <2>2. CASE Dequeue(id)
    BY <1>1, <1>2, <2>2 DEF Dequeue, SetState, TCB
  <2>3. CASE Sleep(id)
    BY <1>1, <1>2, <2>3 DEF Sleep, TCB
  <2>4. CASE WakeUp(id)
    BY <1>1, <1>2, <2>4 DEF WakeUp, EnqueueAs, TCB
  <2>5. CASE Exit(id)
    BY <1>1, <1>2, <2>5 DEF Exit, TCB
  <2> QED BY <1>4, <2>1, <2>2, <2>3, <2>4, <2>5
<1>5. ASSUME YieldLoops \/ ScheduleKeeps \/ ScheduleLoops \/ TimerTick PROVE StartsHighest
  <2>1. CASE YieldLoops
    BY <1>1, <1>2, <2>1 DEF YieldLoops, SetState, TCB
  <2>2. CASE ScheduleKeeps
    BY <1>2, <2>2 DEF ScheduleKeeps
  <2>3. CASE ScheduleLoops
    BY <1>1, <1>2, <2>3 DEF ScheduleLoops, Preempted, TCB
  <2>4. CASE TimerTick
    BY <1>1, <1>2, <2>4 DEF TimerTick, TCB
  <2> QED BY <1>5, <2>1, <2>2, <2>3, <2>4
<1>6. ASSUME UNCHANGED vars PROVE StartsHighest
  BY <1>2, <1>6 DEF vars
<1> QED BY <1>3, <1>4, <1>5, <1>6

LEMMA NextIInv == IInv /\ [Next]_vars => IInv' /\ StartsHighest
<1> SUFFICES ASSUME IInv, [Next]_vars PROVE IInv' /\ StartsHighest
  OBVIOUS
<1>1. ASSUME NEW class \in ClassesUsed, CreateTask(class) PROVE IInv' /\ StartsHighest
  BY <1>1, CreateKeeps, OnlyPicksStart
<1>2. ASSUME NEW id \in UserTasks, Enqueue(id) PROVE IInv' /\ StartsHighest
  BY <1>2, EnqueueKeeps, OnlyPicksStart
<1>3. ASSUME NEW id \in UserTasks, Dequeue(id) PROVE IInv' /\ StartsHighest
  BY <1>3, DequeueActionKeeps, OnlyPicksStart
<1>4. ASSUME NEW id \in UserTasks, Sleep(id) PROVE IInv' /\ StartsHighest
  BY <1>4, SleepKeeps, OnlyPicksStart
<1>5. ASSUME NEW id \in UserTasks, WakeUp(id) PROVE IInv' /\ StartsHighest
  BY <1>5, WakeUpKeeps, OnlyPicksStart
<1>6. ASSUME NEW id \in UserTasks, Exit(id) PROVE IInv' /\ StartsHighest
  BY <1>6, ExitKeeps, OnlyPicksStart
<1>7. CASE PickNext
  BY <1>7, PickNextKeeps
<1>8. CASE Yield
  BY <1>8, YieldKeeps
<1>9. CASE YieldLoops
  BY <1>9, YieldLoopsKeeps, OnlyPicksStart
<1>10. CASE ScheduleKeeps
  <2>1. IInv'
    BY <1>10 DEF ScheduleKeeps, IInv, TypeOK, TaskIds
  <2> QED BY <1>10, <2>1, OnlyPicksStart
<1>11. CASE ScheduleSwitches
  BY <1>11, ScheduleSwitchesKeeps
<1>12. CASE ScheduleLoops
  BY <1>12, ScheduleLoopsKeeps, OnlyPicksStart
<1>13. CASE TimerTick
  BY <1>13, TimerTickKeeps, OnlyPicksStart
<1>14. CASE UNCHANGED vars
  <2>1. IInv'
    BY <1>14 DEF vars, stats, IInv, TypeOK, TaskIds
  <2> QED BY <1>14, <2>1, OnlyPicksStart
<1> QED BY <1>1, <1>2, <1>3, <1>4, <1>5, <1>6, <1>7, <1>8, <1>9, <1>10, <1>11, <1>12, <1>13, <1>14
        DEF Next

LEMMA IInvImplies == IInv => QueueMatchesTable
<1> SUFFICES ASSUME IInv PROVE QueueMatchesTable
  OBVIOUS
<1>1. CountsMatch
  BY DEF IInv, TypeOK, RunQueueOK, TreeOK, CountsMatch
<1>2. OneRunning
  BY DEF IInv, Orderly, CurrentRuns, OneRunning, TaskIds
<1>3. ExitedStaysDead
  BY QueuedMeans DEF IInv, Orderly, ReadyOnce, ExitedAreZombies, ExitedStaysDead, TaskIds
<1>4. QueuedOnce
  <2> SUFFICES ASSUME misuses = 0, NEW c \in Classes, NEW k \in Keys(rq.trees[c])
               PROVE  LET id == rq.trees[c].tree[k]
                      IN /\ tasks[id].state = "Ready"
                         /\ tasks[id].class = c
                         /\ Cardinality(EntriesOf(id)) = 1
    BY DEF QueuedOnce
  <2> DEFINE id == rq.trees[c].tree[k]
  <2>1. tasks[id].state = "Ready" /\ tasks[id].class = c
    BY DEF IInv, Orderly, ReadyOnce, InTheirTrees
  <2>2. \A d \in Classes : \A l \in Keys(rq.trees[d]) :
          rq.trees[d].tree[l] = id => d = c /\ l = k
    BY <2>1 DEF IInv, Orderly, ReadyOnce, InTheirTrees
  <2>3. EntriesOf(id) = {<<c, k>>}
    BY <2>2 DEF EntriesOf, KeysOf
  <2> QED BY <2>1, <2>3, FS_Singleton
<1> QED BY <1>1, <1>2, <1>3, <1>4 DEF QueueMatchesTable

(* However many tasks, classes and calls there are: the counts that        *)
(* stats() reports are the sizes of the trees, and while the callers keep  *)
(* the contract a queued task is Ready and queued once, in the tree of its *)
(* class, at most one task is Running, and it is current, and a task that  *)
(* has exited is never queued or run again.                                *)
THEOREM QueueAndTableAgree == Spec => []QueueMatchesTable
BY InitIInv, NextIInv, IInvImplies, PTL DEF Spec

(* Strict priorities: a task that starts to run, in pick_next, yield or    *)
(* schedule, leaves no queued task of a higher class behind, whatever the  *)
(* callers do.                                                             *)
THEOREM NoHigherClassWaits == Spec => HighestClassRuns
<1>1. IInv /\ [Next]_vars => [StartsHighest]_vars
  BY NextIInv
<1> QED BY InitIInv, NextIInv, <1>1, PTL DEF Spec, HighestClassRuns

=============================================================================

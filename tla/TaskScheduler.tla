---------------------------- MODULE TaskScheduler ----------------------------
(***************************************************************************)
(* The task scheduler of omniagent-automation as its callers drive it: add *)
(* tasks, take the next one, report it completed or failed.  Every method  *)
(* takes &mut self, hence is one action.  The scheduler does not check how *)
(* it is used; careful says whether its callers add each id once, name     *)
(* each dependency once and report only tasks they were given, once.       *)
(***************************************************************************)
EXTENDS Naturals, Sequences, FiniteSets, Functions

CONSTANTS
  Tasks,      \* ids of tasks
  Priorities, \* their priorities
  DepLists,   \* sequences of dependencies that tasks are added with
  MaxQueued   \* bound: entries of ready_queue alike

ConstantsOK ==
  /\ Tasks \subseteq Nat
  /\ Priorities \subseteq Nat
  /\ DepLists \subseteq Seq(Tasks)

VARIABLES
  ready_queue,      \* entry <<priority, id>> -> how often the heap has it
  dependency_graph, \* id -> dependencies
  reverse_deps,     \* id -> tasks that name it, in the order they were added
  tasks,            \* id -> priority
  completed,        \* ids
  failed,           \* ids
  handed,           \* history: id -> how often next_task has returned it
  careful           \* how the callers use it

vars == <<ready_queue, dependency_graph, reverse_deps, tasks, completed,
          failed, handed, careful>>

Entries == Priorities \X Tasks

Positions(s, v) == {i \in DOMAIN s : s[i] = v}

Init ==
  /\ ready_queue = [e \in Entries |-> 0]
  /\ dependency_graph = <<>>
  /\ reverse_deps = [t \in Tasks |-> <<>>]
  /\ tasks = <<>>
  /\ completed = {}
  /\ failed = {}
  /\ handed = [t \in Tasks |-> 0]
  /\ careful \in BOOLEAN

Decided == completed \cup failed
Running == {t \in Tasks : handed[t] > 0} \ Decided

-----------------------------------------------------------------------------

Copies(n, t) == [i \in 1 .. n |-> t]

Updated(f, t, v) == [x \in DOMAIN f \cup {t} |-> IF x = t THEN v ELSE f[x]]

(* A task without unfinished dependencies is queued at once.  Mutant: only *)
(* one without dependencies is                                             *)
StartsReadyIfFree(deps) == deps = <<>>
StartsReady(deps) == Range(deps) \subseteq completed

(* add_task_no_check; a task that is added again replaces the old one, but *)
(* keeps its reverse edges and its entries in the heap                     *)
Added(t, priority, deps) ==
  /\ careful => t \notin DOMAIN tasks /\ IsInjective(deps)
  /\ dependency_graph' = Updated(dependency_graph, t, deps)
  /\ reverse_deps' = [d \in Tasks |->
       reverse_deps[d] \o Copies(Cardinality(Positions(deps, d)), t)]
  /\ ready_queue' =
       IF StartsReady(deps)
       THEN [ready_queue EXCEPT ![<<priority, t>>] = @ + 1]
       ELSE ready_queue
  /\ tasks' = Updated(tasks, t, priority)
  /\ UNCHANGED <<completed, failed, handed>>

AddTaskNoCheck(t, priority, deps) == Added(t, priority, deps)

(* add_task *)
AddTask(t, priority, deps) ==
  /\ \A d \in Range(deps) : d \in DOMAIN tasks \/ d \in completed
  /\ Added(t, priority, deps)

(* The entries that next_task looks at: those of decided tasks it drops    *)
Queued == {e \in Entries : ready_queue[e] > 0}
Live == {e \in Queued : e[2] \notin Decided}

Before(e, f) == e[1] > f[1] \/ (e[1] = f[1] /\ e[2] > f[2])

(* next_task returns the entry that comes first in the heap, and has       *)
(* dropped what came before it                                             *)
NextTask ==
  \E e \in Live :
    /\ \A f \in Live \ {e} : Before(e, f)
    /\ ready_queue' = [f \in Entries |->
         CASE f = e -> ready_queue[f] - 1
           [] Before(f, e) -> 0
           [] OTHER -> ready_queue[f]]
    /\ handed' = [handed EXCEPT ![e[2]] = @ + 1]
    /\ UNCHANGED <<dependency_graph, reverse_deps, tasks, completed, failed>>

(* next_task finds only decided tasks, and has dropped them all *)
NextTaskNone ==
  /\ Live = {}
  /\ Queued # {}
  /\ ready_queue' = [e \in Entries |-> 0]
  /\ UNCHANGED <<dependency_graph, reverse_deps, tasks, completed, failed, handed>>

-----------------------------------------------------------------------------

(* All dependencies are in done.  Mutant: one of them is *)
UnblockedByOne(t, done) == \E d \in Range(dependency_graph[t]) : d \in done
Unblocked(t, done) == Range(dependency_graph[t]) \subseteq done

(* d depends on t and becomes ready when t is completed *)
Unblocks(t, d) ==
  /\ d \in Range(reverse_deps[t])
  /\ Unblocked(d, completed \cup {t})
  /\ d \notin Decided \cup {t}

(* complete_task queues the dependents it unblocks, once for each reverse  *)
(* edge                                                                    *)
CompleteTask(t) ==
  /\ t \in DOMAIN tasks
  /\ careful => t \in Running
  /\ completed' = completed \cup {t}
  /\ ready_queue' = [e \in Entries |->
       IF Unblocks(t, e[2]) /\ e[1] = tasks[e[2]]
       THEN ready_queue[e] + Cardinality(Positions(reverse_deps[t], e[2]))
       ELSE ready_queue[e]]
  /\ UNCHANGED <<dependency_graph, reverse_deps, tasks, failed, handed>>

(* Mutant of FailTask: the task need not be known *)
FailAnyTask(t) ==
  /\ careful => t \in Running
  /\ failed' = failed \cup {t}
  /\ UNCHANGED <<ready_queue, dependency_graph, reverse_deps, tasks, completed, handed>>

FailTask(t) ==
  /\ t \in DOMAIN tasks
  /\ careful => t \in Running
  /\ failed' = failed \cup {t}
  /\ UNCHANGED <<ready_queue, dependency_graph, reverse_deps, tasks, completed, handed>>

Bounded == \A e \in Entries : ready_queue'[e] <= MaxQueued

Next ==
  /\ UNCHANGED careful
  /\ \/ \E t \in Tasks :
          \/ /\ \E priority \in Priorities, deps \in DepLists :
                  \/ AddTask(t, priority, deps)
                  \/ AddTaskNoCheck(t, priority, deps)
             /\ Bounded
          \/ CompleteTask(t) /\ Bounded
          \/ FailTask(t)
     \/ NextTask
     \/ NextTaskNone

Spec == Init /\ [][Next]_vars

-----------------------------------------------------------------------------

TypeOK ==
  /\ ready_queue \in [Entries -> Nat]
  /\ DOMAIN tasks \subseteq Tasks
  /\ tasks \in [DOMAIN tasks -> Priorities]
  /\ dependency_graph \in [DOMAIN tasks -> Seq(Tasks)]
  /\ reverse_deps \in [Tasks -> Seq(DOMAIN tasks)]
  /\ completed \subseteq DOMAIN tasks
  /\ failed \subseteq DOMAIN tasks
  /\ handed \in [Tasks -> Nat]

(* However the scheduler is used: a task whose dependencies are completed  *)
(* is decided, queued or has been handed out (add_task, complete_task).    *)
NothingForgotten ==
  \A t \in DOMAIN tasks :
    Range(dependency_graph[t]) \subseteq completed =>
      \/ t \in Decided
      \/ handed[t] > 0
      \/ \E p \in Priorities : ready_queue[<<p, t>>] > 0

(* Careful callers are given each task at most once, and only after all it *)
(* depends on was reported completed (next_task).                          *)
HandedOutOnce ==
  careful =>
    \A t \in Tasks :
      /\ handed[t] <= 1
      /\ handed[t] = 1 => Range(dependency_graph[t]) \subseteq completed

=============================================================================

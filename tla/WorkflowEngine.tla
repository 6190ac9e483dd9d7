--------------------------- MODULE WorkflowEngine ----------------------------
(***************************************************************************)
(* The workflow engine of omniagent-automation: workflows are registered,  *)
(* executed as a whole and removed, executions paused, resumed and         *)
(* cancelled.  Running a task is simulated by the code and succeeds.       *)
(* Before it, the graph algorithms of the task scheduler it uses: the      *)
(* search for cycles with three colours and Kahn's topological order; a    *)
(* graph is a function from tasks to the sequences of tasks they depend    *)
(* on, and where the code walks over a hash map, the order of the keys is  *)
(* a parameter.  Behind it, the states of a task and the triggers, which   *)
(* say at each check what workflows are to be executed.                    *)
(***************************************************************************)
EXTENDS Naturals, Sequences, SequencesExt, FiniteSetsExt

CONSTANTS
  Ids,         \* ids of workflows
  Definitions, \* workflows: [tasks, graph, handling, exhausted]
  MaxExecutions, \* bound: executions begun
  TriggerIds, TriggerKinds, \* triggers: [kind, event, workflow_id, enabled, last_triggered]
  Events,      \* what happens between two checks: sets of [name, class]
  Times        \* of the checks

Handlings == {"FailFast", "ContinueOnError", "Retry", "Fallback"}
FileClasses == {"Created", "Modified", "Deleted"} \* of events named file:created: ...
TriggerTypes == {"Schedule", "Event", "Manual", "Webhook", "FileWatch"}

ConstantsOK ==
  /\ \A w \in Definitions :
       /\ ToSet(w.tasks) = DOMAIN w.graph
       /\ w.handling \in Handlings
       /\ w.exhausted \subseteq DOMAIN w.graph \* retry_count has reached max_retries
  /\ \A t \in TriggerKinds : t.kind \in TriggerTypes /\ t.enabled /\ t.last_triggered = <<>>
  /\ Times \subseteq Nat

VARIABLES
  workflows,         \* id -> definition
  active_executions, \* execution -> [state, completed_tasks, failed_tasks]
  next_execution_id,
  begun,             \* history: execution -> definition, also of those refused
  triggers,          \* id -> trigger, with enabled
  muted              \* history: ids that were disabled and not enabled since

executionvars == <<workflows, active_executions, next_execution_id, begun>>
triggervars == <<triggers, muted>>
vars == <<executionvars, triggervars>>

-----------------------------------------------------------------------------
(* Reverse edges, with a task once for each time it names the dependency;  *)
(* `tasks' is the order in which the tasks were added                      *)
ReverseDeps(graph, tasks) ==
  LET Dependents(d) ==
        FoldLeft(LAMBDA acc, t :
                   acc \o [i \in 1 .. Cardinality({k \in DOMAIN graph[t] : graph[t][k] = d}) |-> t],
                 <<>>, tasks)
  IN  [d \in DOMAIN graph |-> Dependents(d)]

-----------------------------------------------------------------------------
(* dfs_cycle: whether a cycle is reached from the node, and the colours    *)

(* Mutant: the node stays grey *)
FinishedGrey(found, node) == found
Finished(found, node) == [found EXCEPT !.color[node] = "black"]

RECURSIVE Dfs(_, _, _)
Dfs(graph, node, color) ==
  LET Follow(found, dep) ==
        CASE found.cycle \/ dep \notin DOMAIN graph -> found
          [] found.color[dep] = "grey" -> [found EXCEPT !.cycle = TRUE]
          [] found.color[dep] = "white" -> Dfs(graph, dep, found.color)
          [] OTHER -> found
      found == FoldLeft(Follow,
                        [cycle |-> FALSE, color |-> [color EXCEPT ![node] = "grey"]],
                        graph[node])
  IN  IF found.cycle THEN found ELSE Finished(found, node)

(* has_cycle, with the tasks visited in the order of keys *)
HasCycle(graph, keys) ==
  LET Visit(found, t) ==
        IF found.cycle \/ found.color[t] # "white"
        THEN found
        ELSE Dfs(graph, t, found.color)
  IN  FoldLeft(Visit,
               [cycle |-> FALSE, color |-> [t \in DOMAIN graph |-> "white"]],
               keys).cycle

-----------------------------------------------------------------------------
(* Kahn's algorithm: the queue, the degrees left and the order so far *)

(* One task of the queue is done *)
Released(reverse, state) ==
  LET Release(s, t) ==
        LET left == s.degree[t] - 1
        IN  [s EXCEPT !.degree[t] = left,
                      !.queue = IF left = 0 THEN Append(@, t) ELSE @]
      id == Head(state.queue)
  IN  FoldLeft(Release,
               [state EXCEPT !.queue = Tail(@), !.order = Append(@, id)],
               reverse[id])

RECURSIVE Drained(_, _)
Drained(reverse, state) ==
  IF state.queue = <<>>
  THEN state.order
  ELSE Drained(reverse, Released(reverse, state))

(* topological_order, once has_cycle has found none *)
TopologicalOrder(graph, reverse, keys) ==
  Drained(reverse,
          [queue |-> SelectSeq(keys, LAMBDA t : Len(graph[t]) = 0),
           degree |-> [t \in DOMAIN graph |-> Len(graph[t])],
           order |-> <<>>])

-----------------------------------------------------------------------------
(* What the algorithms are for *)

(* A set of tasks that each wait for one of the set *)
IsDeadlocked(graph, S) ==
  \A t \in S : \E d \in S : d \in ToSet(graph[t])

Acyclic(graph) == \A S \in SUBSET DOMAIN graph \ {{}} : ~IsDeadlocked(graph, S)

(* All tasks once, each after those it depends on *)
Respects(order, graph) ==
  /\ Len(order) = Cardinality(DOMAIN graph)
  /\ ToSet(order) = DOMAIN graph
  /\ \A i \in DOMAIN order : ToSet(graph[order[i]]) \subseteq ToSet(SubSeq(order, 1, i - 1))

-----------------------------------------------------------------------------
(* The engine *)

Init ==
  /\ workflows = <<>>
  /\ active_executions = <<>>
  /\ next_execution_id = 1
  /\ begun = <<>>
  /\ triggers = <<>>
  /\ muted = {}

(* register_workflow: ids of tasks are distinct, dependencies are tasks of *)
(* the workflow                                                            *)
RegisterWorkflow(id, w) ==
  /\ id \notin DOMAIN workflows
  /\ IsInjective(w.tasks)
  /\ \A t \in DOMAIN w.graph : ToSet(w.graph[t]) \subseteq DOMAIN w.graph
  /\ workflows' = [i \in DOMAIN workflows \cup {id} |-> IF i = id THEN w ELSE workflows[i]]
  /\ UNCHANGED <<active_executions, next_execution_id, begun>>

RemoveWorkflow(id) ==
  /\ id \in DOMAIN workflows
  /\ workflows' = [i \in DOMAIN workflows \ {id} |-> workflows[i]]
  /\ UNCHANGED <<active_executions, next_execution_id, begun>>

-----------------------------------------------------------------------------

(* One round of execute's loop: the task succeeds if all it depends on     *)
(* succeeded, else the workflow's strategy decides                         *)
Ran(w, ex, t) ==
  LET Completed == [ex EXCEPT !.completed_tasks = Append(@, t), !.succeeded = @ \cup {t}]
      Failed == [ex EXCEPT !.failed_tasks = Append(@, t)]
  IN  CASE ex.state = "Failed" -> ex
        [] ToSet(w.graph[t]) \subseteq ex.succeeded -> Completed
        [] OTHER ->
             CASE w.handling = "FailFast" -> [Failed EXCEPT !.state = "Failed"]
               [] w.handling = "ContinueOnError" -> Failed
               [] w.handling = "Retry" -> IF t \in w.exhausted THEN Failed ELSE Completed
               [] w.handling = "Fallback" -> Completed

Execution(w, order) ==
  LET ex == FoldLeft(LAMBDA e, t : Ran(w, e, t),
                     [state |-> "Running", completed_tasks |-> <<>>,
                      failed_tasks |-> <<>>, succeeded |-> {}],
                     order)
  IN  [state |-> IF ex.state = "Running" THEN "Completed" ELSE ex.state,
       completed_tasks |-> ex.completed_tasks,
       failed_tasks |-> ex.failed_tasks]

(* execute: the id is spent also when the workflow turns out to be cyclic. *)
(* The hash maps of tasks and of degrees have their keys in any order.     *)
Execute(id) ==
  /\ next_execution_id <= MaxExecutions
  /\ id \in DOMAIN workflows
  /\ next_execution_id' = next_execution_id + 1
  /\ begun' = Append(begun, workflows[id])
  /\ LET w == workflows[id]
         reverse == ReverseDeps(w.graph, w.tasks)
         orders == SetToSeqs(DOMAIN w.graph)
     IN  \E cyclic \in {HasCycle(w.graph, keys) : keys \in orders},
            order \in {TopologicalOrder(w.graph, reverse, roots) : roots \in orders} :
           IF cyclic \/ Len(order) # Len(w.tasks)
           THEN UNCHANGED active_executions
           ELSE active_executions' =
                  [e \in DOMAIN active_executions \cup {next_execution_id} |->
                     IF e = next_execution_id THEN Execution(w, order)
                     ELSE active_executions[e]]
  /\ UNCHANGED workflows

(* pause, resume and cancel; in any other state they fail *)
Controlled(request, state) ==
  CASE request = "pause" /\ state = "Running" -> "Paused"
    [] request = "resume" /\ state = "Paused" -> "Running"
    [] request = "cancel" /\ state \in {"Running", "Paused"} -> "Cancelled"
    [] OTHER -> state

Control(e, request) ==
  /\ e \in DOMAIN active_executions
  /\ active_executions' = [active_executions EXCEPT ![e].state = Controlled(request, @)]
  /\ UNCHANGED <<workflows, next_execution_id, begun>>

ExecutionNext ==
  /\ \/ \E id \in Ids :
          \/ \E w \in Definitions : RegisterWorkflow(id, w)
          \/ RemoveWorkflow(id)
          \/ Execute(id)
     \/ \E e \in DOMAIN active_executions, request \in {"pause", "resume", "cancel"} :
          Control(e, request)
  /\ UNCHANGED triggervars

-----------------------------------------------------------------------------
(* What transition_to allows of a task *)

TaskStates ==
  {"Pending", "Running", "Waiting", "Paused", "Completed", "Failed", "Cancelled", "Retrying"}

CanBecome(state, new) ==
  \/ state = new
  \/ state = "Pending" /\ new \in {"Running", "Waiting", "Cancelled"}
  \/ state \in {"Waiting", "Paused"} /\ new \in {"Running", "Cancelled"}
  \/ state = "Running" /\ new \in {"Completed", "Failed", "Paused", "Retrying"}
  \/ state = "Retrying" /\ new \in {"Running", "Failed"}

-----------------------------------------------------------------------------
(* Triggers *)

(* register, which replaces a trigger of the id *)
RegisterTrigger(id, trigger) ==
  /\ triggers' = [i \in DOMAIN triggers \cup {id} |->
       IF i = id THEN trigger ELSE triggers[i]]
  /\ muted' = muted \ {id}

UnregisterTrigger(id) ==
  /\ id \in DOMAIN triggers
  /\ triggers' = [i \in DOMAIN triggers \ {id} |-> triggers[i]]
  /\ muted' = muted \ {id}

(* enable and disable *)
SetEnabled(id, enabled) ==
  /\ id \in DOMAIN triggers
  /\ triggers' = [triggers EXCEPT ![id].enabled = enabled]
  /\ muted' = IF enabled THEN muted \ {id} ELSE muted \cup {id}

(* Manual and Webhook triggers do not fire by themselves; the filter of an *)
(* event and the path of a file are not looked at                          *)
ShouldTrigger(trigger, time, events) ==
  CASE trigger.kind = "Schedule" -> \A last \in ToSet(trigger.last_triggered) : time > last
    [] trigger.kind = "Event" -> \E e \in events : e.name = trigger.event
    [] trigger.kind = "FileWatch" ->
         \E e \in events : e.class \in FileClasses /\ trigger.event \in {e.class, "Any"}
    [] OTHER -> FALSE

(* check_triggers names a workflow once for each of its triggers that      *)
(* fires; it notes nothing, so that a schedule fires at every check        *)
CheckTriggers(registered, time, events) ==
  [w \in Ids |->
     Cardinality({i \in DOMAIN registered :
                    /\ registered[i].enabled
                    /\ registered[i].workflow_id = w
                    /\ ShouldTrigger(registered[i], time, events)})]

TriggerNext ==
  /\ \E id \in TriggerIds :
       \/ \E trigger \in TriggerKinds : RegisterTrigger(id, trigger)
       \/ UnregisterTrigger(id)
       \/ \E enabled \in BOOLEAN : SetEnabled(id, enabled)
  /\ UNCHANGED executionvars

Next == ExecutionNext \/ TriggerNext

Spec == Init /\ [][Next]_vars

-----------------------------------------------------------------------------

TypeOK ==
  /\ DOMAIN workflows \subseteq Ids
  /\ \A id \in DOMAIN workflows : workflows[id] \in Definitions
  /\ next_execution_id = Len(begun) + 1
  /\ DOMAIN active_executions \subseteq 1 .. Len(begun)
  /\ \A id \in DOMAIN triggers :
       id \in TriggerIds /\ [triggers[id] EXCEPT !.enabled = TRUE] \in TriggerKinds
  /\ muted \subseteq DOMAIN triggers

(* An execution of an acyclic workflow runs every task once, each after    *)
(* those it depends on, and completes; a cyclic workflow is refused        *)
(* (execute, has_cycle and topological_order).  No call to pause, resume or *)
(* cancel it finds it running.                                             *)
RunsInOrder ==
  \A e \in DOMAIN begun :
    IF Acyclic(begun[e].graph)
    THEN /\ e \in DOMAIN active_executions
         /\ active_executions[e].state = "Completed"
         /\ Respects(active_executions[e].completed_tasks, begun[e].graph)
         /\ active_executions[e].failed_tasks = <<>>
    ELSE e \notin DOMAIN active_executions

(* A trigger has no say from when it is disabled until it is enabled or    *)
(* registered again; a schedule has one at every check, and a watch for    *)
(* any event whenever one for a class of events would (check_triggers).    *)
TriggersExact ==
  \A time \in Times, events \in Events :
    LET heard == [id \in DOMAIN triggers \ muted |-> triggers[id]]
        triggered == CheckTriggers(triggers, time, events)
        Alone(watched) ==
          CheckTriggers([w \in Ids |-> [kind |-> "FileWatch", event |-> watched,
                                       workflow_id |-> w, enabled |-> TRUE]], time, events)
    IN  /\ triggered = CheckTriggers(heard, time, events)
        /\ \A id \in DOMAIN heard :
             /\ heard[id].kind = "Schedule" => triggered[heard[id].workflow_id] > 0
             /\ heard[id].kind = "FileWatch" /\ heard[id].event = "Any" =>
                  (triggered[heard[id].workflow_id] = 0 =>
                     \A class \in FileClasses : Alone(class)[heard[id].workflow_id] = 0)

(* A task that has ended stays so, and one that has not still can; only a  *)
(* task that was running completes (transition_to).                        *)
TaskStatesEnd ==
  LET Ended == {s \in TaskStates : \A t \in TaskStates : CanBecome(s, t) => t = s}
      Ways == {s \in TaskStates : \E t \in Ended : CanBecome(s, t)}
  IN  /\ Ended = {"Completed", "Failed", "Cancelled"}
      /\ Ways = TaskStates
      /\ \A s \in TaskStates : CanBecome(s, "Completed") => s \in {"Running", "Completed"}

=============================================================================

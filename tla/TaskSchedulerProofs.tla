------------------------- MODULE TaskSchedulerProofs -------------------------
(***************************************************************************)
(* Theorems about the task scheduler, for any tasks, priorities and        *)
(* dependencies.                                                           *)
(***************************************************************************)
EXTENDS TaskScheduler, FiniteSetTheorems, SequenceTheorems, TLAPS

(* The edges of the two graphs are the same, seen from both ends. *)
EdgesReversed ==
  \A t \in DOMAIN tasks : \A d \in Range(dependency_graph[t]) :
    t \in Range(reverse_deps[d])

IInv == TypeOK /\ EdgesReversed /\ NothingForgotten

(* With careful callers: each reverse edge is there once and is an edge,   *)
EdgesOnce ==
  \A d \in Tasks :
    /\ IsInjective(reverse_deps[d])
    /\ \A t \in Range(reverse_deps[d]) : d \in Range(dependency_graph[t])

(* a queued task is queued once, under its priority, and can be started,   *)
QueuedOnce ==
  \A e \in Queued :
    /\ e[2] \in DOMAIN tasks
    /\ e[1] = tasks[e[2]]
    /\ ready_queue[e] = 1
    /\ handed[e[2]] = 0
    /\ Range(dependency_graph[e[2]]) \subseteq completed

(* and what was handed out, once, could be started.                        *)
HandedOnce ==
  \A t \in Tasks :
    /\ handed[t] \in {0, 1}
    /\ handed[t] = 1 => t \in DOMAIN tasks /\ Range(dependency_graph[t]) \subseteq completed
    /\ t \in Decided => handed[t] = 1

CarefulInv == TypeOK /\ EdgesOnce /\ QueuedOnce /\ HandedOnce

-----------------------------------------------------------------------------
(* How often a value occurs in a sequence *)

LEMMA PositionsCounted ==
  ASSUME NEW S, NEW s \in Seq(S), NEW v
  PROVE  /\ IsFiniteSet(Positions(s, v))
         /\ Cardinality(Positions(s, v)) \in Nat
         /\ v \in Range(s) => Cardinality(Positions(s, v)) > 0
         /\ v \notin Range(s) => Cardinality(Positions(s, v)) = 0
         /\ v \in Range(s) /\ IsInjective(s) => Cardinality(Positions(s, v)) = 1
<1> DEFINE P == Positions(s, v)
<1>1. DOMAIN s = 1 .. Len(s) /\ Len(s) \in Nat
  BY LenProperties
<1>2. IsFiniteSet(P) /\ Cardinality(P) \in Nat
  <2>1. IsFiniteSet(1 .. Len(s))
    BY <1>1, FS_Interval
  <2>2. P \subseteq 1 .. Len(s)
    BY <1>1 DEF Positions
  <2> QED BY <2>1, <2>2, FS_Subset, FS_CardinalityType
<1>3. P = {} <=> v \notin Range(s)
  BY DEF Positions, Range
<1>4. Cardinality(P) = 0 <=> P = {}
  BY <1>2, FS_EmptySet
<1>5. ASSUME v \in Range(s), IsInjective(s) PROVE Cardinality(P) = 1
  <2>1. PICK i \in DOMAIN s : s[i] = v
    BY <1>5 DEF Range
  <2>2. P = {i}
    BY <1>5, <2>1 DEF Positions, IsInjective
  <2> QED BY <2>2, FS_Singleton
<1> QED BY <1>2, <1>3, <1>4, <1>5

(* Appending n copies of a task *)
LEMMA AppendCopies ==
  ASSUME NEW S, NEW s \in Seq(S), NEW n \in Nat, NEW v \in S
  PROVE  /\ s \o Copies(n, v) \in Seq(S)
         /\ Range(s) \subseteq Range(s \o Copies(n, v))
         /\ Range(s \o Copies(n, v)) \subseteq Range(s) \cup {v}
         /\ n > 0 => v \in Range(s \o Copies(n, v))
         /\ n = 0 => s \o Copies(n, v) = s
<1> DEFINE c == Copies(n, v)
           r == s \o c
<1>1. c \in Seq(S) /\ Len(c) = n /\ \A i \in 1 .. n : c[i] = v
  BY DEF Copies
<1>2. /\ r \in Seq(S)
      /\ Len(r) = Len(s) + n
      /\ \A i \in 1 .. Len(s) + n : r[i] = IF i <= Len(s) THEN s[i] ELSE c[i - Len(s)]
  BY <1>1, ConcatProperties
<1>3. /\ Len(s) \in Nat
      /\ DOMAIN s = 1 .. Len(s)
      /\ DOMAIN r = 1 .. Len(s) + n
  BY <1>2, LenProperties
<1>4. \A i \in 1 .. Len(s) : i \in DOMAIN r /\ r[i] = s[i]
  BY <1>2, <1>3
<1>5. \A i \in 1 .. Len(s) + n : i > Len(s) => r[i] = v
  BY <1>1, <1>2, <1>3
<1>6. Range(s) \subseteq Range(r)
  BY <1>3, <1>4 DEF Range
<1>7. Range(r) \subseteq Range(s) \cup {v}
  BY <1>3, <1>4, <1>5 DEF Range
<1>8. n > 0 => v \in Range(r)
  <2> SUFFICES ASSUME n > 0 PROVE v \in Range(r)
    OBVIOUS
  <2>1. Len(s) + 1 \in DOMAIN r /\ r[Len(s) + 1] = v
    BY <1>3, <1>5
  <2> QED BY <2>1 DEF Range
<1>9. n = 0 => r = s
  <2> SUFFICES ASSUME n = 0 PROVE r = s
    OBVIOUS
  <2>1. c = << >>
    BY <1>1
  <2> QED BY <2>1, ConcatEmptySeq
<1> QED BY <1>2, <1>6, <1>7, <1>8, <1>9

-----------------------------------------------------------------------------

LEMMA InitIInv ==
  ASSUME ConstantsOK
  PROVE  Init => IInv
BY DEF Init, IInv, TypeOK, EdgesReversed, NothingForgotten, Entries

(* Adding a task keeps what is known of the others *)
LEMMA AddedIInv ==
  ASSUME ConstantsOK, IInv,
         NEW t \in Tasks, NEW priority \in Priorities, NEW deps \in DepLists,
         Added(t, priority, deps)
  PROVE  IInv'
<1> DEFINE copies(d) == Cardinality(Positions(deps, d))
<1> USE DEF IInv
<1>1. deps \in Seq(Tasks)
  BY DEF ConstantsOK
<1>2. DOMAIN tasks' = DOMAIN tasks \cup {t}
  BY DEF Added, Updated
<1>3. \A d \in Tasks :
        /\ copies(d) \in Nat
        /\ d \in Range(deps) => copies(d) > 0
        /\ reverse_deps'[d] = reverse_deps[d] \o Copies(copies(d), t)
  BY <1>1, PositionsCounted DEF Added
<1>4. \A d \in Tasks : reverse_deps[d] \in Seq(DOMAIN tasks')
  BY <1>2, SeqMonotonic DEF TypeOK
<1>5. \A d \in Tasks :
        /\ reverse_deps'[d] \in Seq(DOMAIN tasks')
        /\ Range(reverse_deps[d]) \subseteq Range(reverse_deps'[d])
        /\ d \in Range(deps) => t \in Range(reverse_deps'[d])
  <2> SUFFICES ASSUME NEW d \in Tasks
               PROVE  /\ reverse_deps'[d] \in Seq(DOMAIN tasks')
                      /\ Range(reverse_deps[d]) \subseteq Range(reverse_deps'[d])
                      /\ d \in Range(deps) => t \in Range(reverse_deps'[d])
    OBVIOUS
  <2>1. t \in DOMAIN tasks'
    BY <1>2
  <2>2. copies(d) \in Nat /\ reverse_deps[d] \in Seq(DOMAIN tasks')
    BY <1>3, <1>4
  <2> DEFINE n == copies(d)
             r == reverse_deps[d] \o Copies(n, t)
  <2>3. n > 0 => t \in Range(r)
    <3> HIDE DEF copies
    <3> QED BY <2>1, <2>2, AppendCopies
  <2>4. r \in Seq(DOMAIN tasks') /\ Range(reverse_deps[d]) \subseteq Range(r)
    <3> HIDE DEF copies
    <3> QED BY <2>1, <2>2, AppendCopies
  <2>5. reverse_deps'[d] = r
    BY <1>3
  <2>6. d \in Range(deps) => n > 0
    BY <1>3
  <2> QED BY <2>3, <2>4, <2>5, <2>6
<1>6. \A x \in DOMAIN tasks' :
        dependency_graph'[x] = IF x = t THEN deps ELSE dependency_graph[x]
  BY <1>2 DEF Added, Updated, TypeOK
<1>7. /\ ready_queue' \in [Entries -> Nat]
      /\ \A e \in Entries : ready_queue'[e] >= ready_queue[e]
      /\ Range(deps) \subseteq completed => ready_queue'[<<priority, t>>] > 0
  <2>1. ready_queue \in [Entries -> Nat] /\ <<priority, t>> \in Entries
    BY DEF TypeOK, Entries
  <2>2. CASE StartsReady(deps)
    <3>1. ready_queue' = [ready_queue EXCEPT ![<<priority, t>>] = @ + 1]
      BY <2>2 DEF Added
    <3> QED BY <2>1, <3>1
  <2>3. CASE ~StartsReady(deps)
    <3>1. ready_queue' = ready_queue
      BY <2>3 DEF Added
    <3> QED BY <2>1, <2>3, <3>1 DEF StartsReady
  <2> QED BY <2>2, <2>3
<1>8. TypeOK'
  <2>1. tasks' \in [DOMAIN tasks' -> Priorities]
    BY DEF Added, Updated, TypeOK
  <2>2. dependency_graph' \in [DOMAIN tasks' -> Seq(Tasks)]
    BY <1>1, <1>2, <1>6 DEF Added, Updated, TypeOK
  <2>3. reverse_deps' \in [Tasks -> Seq(DOMAIN tasks')]
    BY <1>5 DEF Added
  <2> QED BY <1>2, <1>7, <2>1, <2>2, <2>3 DEF TypeOK, Added
<1>9. EdgesReversed'
  <2> SUFFICES ASSUME NEW x \in DOMAIN tasks', NEW d \in Range(dependency_graph'[x])
               PROVE  x \in Range(reverse_deps'[d])
    BY DEF EdgesReversed, Range
  <2>1. dependency_graph'[x] \in Seq(Tasks)
    BY <1>8 DEF TypeOK
  <2>2. d \in Tasks
    BY <2>1, ElementOfSeq, LenProperties DEF Range
  <2>3. CASE x = t
    BY <1>5, <1>6, <2>2, <2>3
  <2>4. CASE x # t
    BY <1>2, <1>5, <1>6, <2>2, <2>4 DEF EdgesReversed
  <2> QED BY <2>3, <2>4
<1>10. NothingForgotten'
  <2> SUFFICES ASSUME NEW x \in DOMAIN tasks',
                      Range(dependency_graph'[x]) \subseteq completed',
                      x \notin Decided', ~(handed'[x] > 0)
               PROVE  \E p \in Priorities : ready_queue'[<<p, x>>] > 0
    BY DEF NothingForgotten, Range
  <2>1. completed' = completed /\ Decided' = Decided /\ handed' = handed
    BY DEF Added, Decided
  <2>2. CASE x = t
    BY <1>6, <1>7, <2>1, <2>2
  <2>3. CASE x # t
    <3>1. PICK p \in Priorities : ready_queue[<<p, x>>] > 0
      BY <1>2, <1>6, <2>1, <2>3 DEF NothingForgotten
    <3>2. <<p, x>> \in Entries
      BY <1>2 DEF Entries, TypeOK
    <3>3. ready_queue'[<<p, x>>] > 0
      BY <1>7, <3>1, <3>2 DEF TypeOK
    <3> QED BY <3>3
  <2> QED BY <2>2, <2>3
<1> QED BY <1>8, <1>9, <1>10

(* Handing out an entry: it was queued, and others of undecided tasks stay *)
LEMMA NextTaskIInv ==
  ASSUME ConstantsOK, IInv, NextTask
  PROVE  IInv'
<1> USE DEF IInv
<1>1. PICK e \in Live :
        /\ \A f \in Live \ {e} : Before(e, f)
        /\ ready_queue' = [f \in Entries |->
             CASE f = e -> ready_queue[f] - 1
               [] Before(f, e) -> 0
               [] OTHER -> ready_queue[f]]
        /\ handed' = [handed EXCEPT ![e[2]] = @ + 1]
        /\ UNCHANGED <<dependency_graph, reverse_deps, tasks, completed, failed>>
  BY DEF NextTask
<1>2. /\ e \in Entries /\ e[1] \in Priorities /\ e[2] \in Tasks
      /\ ready_queue[e] > 0 /\ ready_queue[e] \in Nat
  BY DEF Live, Queued, Entries, TypeOK
<1>3. ready_queue' \in [Entries -> Nat]
  <2> SUFFICES ASSUME NEW f \in Entries
               PROVE  (CASE f = e -> ready_queue[f] - 1
                         [] Before(f, e) -> 0
                         [] OTHER -> ready_queue[f]) \in Nat
    BY <1>1
  <2>1. ready_queue[f] \in Nat
    BY DEF TypeOK
  <2> QED BY <1>2, <2>1
<1>4. handed' \in [Tasks -> Nat] /\ \A x \in Tasks : handed'[x] >= handed[x]
  BY <1>1, <1>2 DEF TypeOK
<1>5. handed'[e[2]] > 0
  BY <1>1, <1>2 DEF TypeOK
<1>6. TypeOK'
  BY <1>1, <1>3, <1>4 DEF TypeOK
<1>7. EdgesReversed'
  BY <1>1 DEF EdgesReversed, Range
<1>8. NothingForgotten'
  <2> SUFFICES ASSUME NEW x \in DOMAIN tasks,
                      Range(dependency_graph[x]) \subseteq completed,
                      x \notin Decided, ~(handed'[x] > 0)
               PROVE  \E p \in Priorities : ready_queue'[<<p, x>>] > 0
    BY <1>1 DEF NothingForgotten, Range, Decided
  <2>1. x \in Tasks /\ handed[x] \in Nat /\ handed'[x] \in Nat
    BY <1>4 DEF TypeOK
  <2>2. ~(handed[x] > 0) /\ x # e[2]
    BY <1>4, <1>5, <2>1
  <2>3. PICK p \in Priorities : ready_queue[<<p, x>>] > 0
    BY <2>2 DEF NothingForgotten
  <2> DEFINE f == <<p, x>>
  <2>4. f \in Live \ {e}
    BY <2>1, <2>2, <2>3 DEF Live, Queued, Entries
  <2>5. Before(e, f) /\ f # e /\ f \in Entries
    BY <1>1, <2>4 DEF Live, Queued
  <2>6. ~Before(f, e)
    <3>1. f[1] \in Nat /\ f[2] \in Nat /\ e[1] \in Nat /\ e[2] \in Nat
      BY <1>2, <2>1 DEF ConstantsOK
    <3> HIDE DEF f
    <3> QED BY <2>5, <3>1 DEF Before
  <2>7. ready_queue'[f] = ready_queue[f]
    BY <1>1, <2>5, <2>6
  <2> QED BY <2>3, <2>7
<1> QED BY <1>6, <1>7, <1>8

LEMMA NextTaskNoneIInv ==
  ASSUME ConstantsOK, IInv, NextTaskNone
  PROVE  IInv'
<1> USE DEF IInv
<1>1. UNCHANGED <<dependency_graph, reverse_deps, tasks, completed, failed, handed>>
  BY DEF NextTaskNone
<1>2. TypeOK'
  BY <1>1 DEF NextTaskNone, TypeOK
<1>3. EdgesReversed'
  BY <1>1 DEF EdgesReversed, Range
<1>4. NothingForgotten'
  <2> SUFFICES ASSUME NEW x \in DOMAIN tasks,
                      Range(dependency_graph[x]) \subseteq completed,
                      x \notin Decided, ~(handed[x] > 0)
               PROVE  FALSE
    BY <1>1 DEF NothingForgotten, Range, Decided
  <2>1. PICK p \in Priorities : ready_queue[<<p, x>>] > 0
    BY DEF NothingForgotten
  <2>2. <<p, x>> \in Live
    BY <2>1 DEF Live, Queued, Entries, TypeOK
  <2> QED BY <2>2 DEF NextTaskNone
<1> QED BY <1>2, <1>3, <1>4

(* Completing a task queues every task whose last open dependency it was:  *)
(* the reverse edge is there.                                              *)
LEMMA CompleteTaskIInv ==
  ASSUME ConstantsOK, IInv, NEW t \in Tasks, CompleteTask(t)
  PROVE  IInv'
<1> DEFINE copies(x) == Cardinality(Positions(reverse_deps[t], x))
<1> USE DEF IInv
<1>1. /\ t \in DOMAIN tasks
      /\ completed' = completed \cup {t}
      /\ UNCHANGED <<dependency_graph, reverse_deps, tasks, failed, handed>>
  BY DEF CompleteTask
<1>2. \A x : copies(x) \in Nat /\ (x \in Range(reverse_deps[t]) => copies(x) > 0)
  <2>1. reverse_deps[t] \in Seq(DOMAIN tasks)
    BY DEF TypeOK
  <2> QED BY <2>1, PositionsCounted
<1>3. ready_queue' = [e \in Entries |->
        IF Unblocks(t, e[2]) /\ e[1] = tasks[e[2]]
        THEN ready_queue[e] + copies(e[2])
        ELSE ready_queue[e]]
  BY DEF CompleteTask
<1> HIDE DEF copies
<1>4. /\ ready_queue' \in [Entries -> Nat]
      /\ \A e \in Entries : ready_queue'[e] >= ready_queue[e]
  <2>1. \A e \in Entries : ready_queue[e] \in Nat
    BY DEF TypeOK
  <2> QED BY <1>2, <1>3, <2>1
<1>5. TypeOK'
  BY <1>1, <1>4 DEF TypeOK
<1>6. EdgesReversed'
  BY <1>1 DEF EdgesReversed, Range
<1>7. NothingForgotten'
  <2> SUFFICES ASSUME NEW x \in DOMAIN tasks,
                      Range(dependency_graph[x]) \subseteq completed \cup {t},
                      x \notin Decided \cup {t}, ~(handed[x] > 0)
               PROVE  \E p \in Priorities : ready_queue'[<<p, x>>] > 0
    BY <1>1 DEF NothingForgotten, Range, Decided
  <2>1. x \in Tasks /\ \A p \in Priorities : <<p, x>> \in Entries /\ ready_queue[<<p, x>>] \in Nat
    BY DEF TypeOK, Entries
  <2>2. CASE t \notin Range(dependency_graph[x])
    <3>1. PICK p \in Priorities : ready_queue[<<p, x>>] > 0
      BY <2>2 DEF NothingForgotten
    <3>2. ready_queue'[<<p, x>>] \in Nat
      BY <1>4, <2>1
    <3>3. ready_queue'[<<p, x>>] > 0
      BY <1>4, <2>1, <3>1, <3>2
    <3> QED BY <3>3
  <2>3. CASE t \in Range(dependency_graph[x])
    <3>1. x \in Range(reverse_deps[t])
      BY <2>3 DEF EdgesReversed
    <3>2. Unblocks(t, x)
      BY <3>1 DEF Unblocks, Unblocked
    <3>3. tasks[x] \in Priorities
      BY DEF TypeOK
    <3>4. ready_queue'[<<tasks[x], x>>] = ready_queue[<<tasks[x], x>>] + copies(x)
      BY <1>3, <2>1, <3>2, <3>3
    <3>5. ready_queue'[<<tasks[x], x>>] > 0
      BY <1>2, <2>1, <3>1, <3>3, <3>4
    <3> QED BY <3>3, <3>5
  <2> QED BY <2>2, <2>3
<1> QED BY <1>5, <1>6, <1>7

LEMMA FailTaskIInv ==
  ASSUME ConstantsOK, IInv, NEW t \in Tasks, FailTask(t)
  PROVE  IInv'
<1> USE DEF IInv
<1>1. /\ t \in DOMAIN tasks
      /\ failed' = failed \cup {t}
      /\ UNCHANGED <<ready_queue, dependency_graph, reverse_deps, tasks, completed, handed>>
  BY DEF FailTask
<1>2. TypeOK'
  BY <1>1 DEF TypeOK
<1>3. EdgesReversed'
  BY <1>1 DEF EdgesReversed, Range
<1>4. NothingForgotten'
  BY <1>1 DEF NothingForgotten, Range, Decided
<1> QED BY <1>2, <1>3, <1>4

LEMMA StutterIInv ==
  ASSUME IInv, UNCHANGED vars
  PROVE  IInv'
<1>1. TypeOK'
  BY DEF vars, IInv, TypeOK
<1>2. EdgesReversed'
  BY DEF vars, IInv, EdgesReversed, Range
<1>3. NothingForgotten'
  BY DEF vars, IInv, NothingForgotten, Range, Decided
<1> QED BY <1>1, <1>2, <1>3 DEF IInv

LEMMA NextIInv ==
  ASSUME ConstantsOK
  PROVE  IInv /\ [Next]_vars => IInv'
<1> SUFFICES ASSUME IInv, [Next]_vars PROVE IInv'
  OBVIOUS
<1>1. ASSUME NEW t \in Tasks, NEW priority \in Priorities, NEW deps \in DepLists,
             AddTask(t, priority, deps) \/ AddTaskNoCheck(t, priority, deps)
      PROVE  IInv'
  BY <1>1, AddedIInv DEF AddTask, AddTaskNoCheck
<1>2. ASSUME NEW t \in Tasks, CompleteTask(t)
      PROVE  IInv'
  BY <1>2, CompleteTaskIInv
<1>3. ASSUME NEW t \in Tasks, FailTask(t)
      PROVE  IInv'
  BY <1>3, FailTaskIInv
<1>4. CASE NextTask
  BY <1>4, NextTaskIInv
<1>5. CASE NextTaskNone
  BY <1>5, NextTaskNoneIInv
<1>6. CASE UNCHANGED vars
  BY <1>6, StutterIInv
<1> QED BY <1>1, <1>2, <1>3, <1>4, <1>5, <1>6 DEF Next

(* However the scheduler is used, it forgets no task: one whose            *)
(* dependencies are completed is decided, queued or has been handed out.   *)
THEOREM ForgetsNothing ==
  ASSUME ConstantsOK
  PROVE  Spec => []NothingForgotten
<1>1. Init => IInv
  BY InitIInv
<1>2. IInv /\ [Next]_vars => IInv'
  BY NextIInv
<1>3. IInv => NothingForgotten
  BY DEF IInv
<1> QED BY <1>1, <1>2, <1>3, PTL DEF Spec

-----------------------------------------------------------------------------
(* Careful callers *)

LEMMA AppendedOnce ==
  ASSUME NEW S, NEW s \in Seq(S), NEW v \in S, v \notin Range(s), IsInjective(s),
         NEW n \in {0, 1}
  PROVE  IsInjective(s \o Copies(n, v))
<1> DEFINE c == Copies(n, v)
           r == s \o c
<1>1. c \in Seq(S) /\ Len(c) = n /\ \A i \in 1 .. n : c[i] = v
  BY DEF Copies
<1>2. /\ r \in Seq(S)
      /\ Len(r) = Len(s) + n
      /\ \A i \in 1 .. Len(s) + n : r[i] = IF i <= Len(s) THEN s[i] ELSE c[i - Len(s)]
  BY <1>1, ConcatProperties
<1>3. /\ Len(s) \in Nat
      /\ DOMAIN s = 1 .. Len(s)
      /\ DOMAIN r = 1 .. Len(s) + n
  BY <1>2, LenProperties
<1>4. \A i \in 1 .. Len(s) : r[i] = s[i] /\ r[i] # v
  BY <1>2, <1>3 DEF Range
<1>5. \A i \in DOMAIN r : i > Len(s) => r[i] = v /\ i = Len(s) + 1
  BY <1>1, <1>2, <1>3
<1>6. \A i, j \in DOMAIN r : r[i] = r[j] => i = j
  <2> SUFFICES ASSUME NEW i \in DOMAIN r, NEW j \in DOMAIN r, r[i] = r[j]
               PROVE  i = j
    OBVIOUS
  <2>1. CASE i <= Len(s) /\ j <= Len(s)
    BY <1>3, <1>4, <2>1 DEF IsInjective
  <2>2. CASE i > Len(s) /\ j > Len(s)
    BY <1>5, <2>2
  <2>3. CASE (i <= Len(s) /\ j > Len(s)) \/ (i > Len(s) /\ j <= Len(s))
    BY <1>3, <1>4, <1>5, <2>3
  <2> QED BY <1>3, <2>1, <2>2, <2>3
<1> QED BY <1>6 DEF IsInjective

LEMMA InitCareful ==
  ASSUME ConstantsOK
  PROVE  Init => CarefulInv
<1> SUFFICES ASSUME Init PROVE CarefulInv
  OBVIOUS
<1>1. TypeOK
  BY InitIInv DEF IInv
<1>2. EdgesOnce
  BY DEF Init, EdgesOnce, IsInjective, Range
<1>3. QueuedOnce
  BY DEF Init, QueuedOnce, Queued, Entries
<1>4. HandedOnce
  BY DEF Init, HandedOnce, Decided
<1> QED BY <1>1, <1>2, <1>3, <1>4 DEF CarefulInv

(* A new task has no reverse edges, no entry and was not handed out *)
LEMMA AddedCareful ==
  ASSUME ConstantsOK, careful, CarefulInv, TypeOK',
         NEW t \in Tasks, NEW priority \in Priorities, NEW deps \in DepLists,
         Added(t, priority, deps)
  PROVE  CarefulInv'
<1> DEFINE copies(d) == Cardinality(Positions(deps, d))
<1> USE DEF CarefulInv
<1>1. /\ deps \in Seq(Tasks) /\ IsInjective(deps)
      /\ t \notin DOMAIN tasks
      /\ DOMAIN tasks' = DOMAIN tasks \cup {t}
      /\ \A x \in DOMAIN tasks' : tasks'[x] = IF x = t THEN priority ELSE tasks[x]
      /\ \A x \in DOMAIN tasks' :
           dependency_graph'[x] = IF x = t THEN deps ELSE dependency_graph[x]
      /\ UNCHANGED <<completed, failed, handed>>
  BY DEF ConstantsOK, Added, Updated, TypeOK
<1>2. \A d \in Tasks :
        /\ copies(d) \in {0, 1}
        /\ copies(d) = 1 => d \in Range(deps)
        /\ reverse_deps'[d] = reverse_deps[d] \o Copies(copies(d), t)
  BY <1>1, PositionsCounted DEF Added
<1> HIDE DEF copies
<1>3. \A d \in Tasks : reverse_deps[d] \in Seq(DOMAIN tasks') /\ t \notin Range(reverse_deps[d])
  <2> SUFFICES ASSUME NEW d \in Tasks
               PROVE  reverse_deps[d] \in Seq(DOMAIN tasks') /\ t \notin Range(reverse_deps[d])
    OBVIOUS
  <2>1. reverse_deps[d] \in Seq(DOMAIN tasks)
    BY DEF TypeOK
  <2>2. Range(reverse_deps[d]) \subseteq DOMAIN tasks
    BY <2>1, ElementOfSeq, LenProperties DEF Range
  <2> QED BY <1>1, <2>1, <2>2, SeqMonotonic
<1>4. EdgesOnce'
  <2> SUFFICES ASSUME NEW d \in Tasks
               PROVE  /\ IsInjective(reverse_deps'[d])
                      /\ \A x \in Range(reverse_deps'[d]) : d \in Range(dependency_graph'[x])
    BY DEF EdgesOnce, IsInjective, Range
  <2> DEFINE s == reverse_deps[d]
             n == copies(d)
             r == s \o Copies(n, t)
             S == DOMAIN tasks'
  <2>1. n \in {0, 1} /\ n \in Nat /\ s \in Seq(S) /\ t \in S /\ t \notin Range(s)
    BY <1>1, <1>2, <1>3
  <2>2. IsInjective(s)
    BY DEF EdgesOnce
  <2>3. IsInjective(r)
    <3> HIDE DEF S, s, n
    <3> QED BY <2>1, <2>2, AppendedOnce
  <2>4. Range(r) \subseteq Range(s) \cup {t} /\ (n = 0 => r = s)
    <3> HIDE DEF S, s, n
    <3>1. Range(r) \subseteq Range(s) \cup {t}
      BY <2>1, AppendCopies
    <3>2. n = 0 => r = s
      BY <2>1, AppendCopies
    <3> QED BY <3>1, <3>2
  <2>5. reverse_deps'[d] = r
    BY <1>2
  <2>6. ASSUME NEW x \in Range(r)
        PROVE  d \in Range(dependency_graph'[x])
    <3>1. CASE x \in Range(s)
      <4>1. x \in DOMAIN tasks /\ x # t
        <5>1. s \in Seq(DOMAIN tasks)
          BY DEF TypeOK
        <5> QED BY <2>1, <3>1, <5>1, ElementOfSeq, LenProperties DEF Range
      <4>2. d \in Range(dependency_graph[x])
        BY <3>1 DEF EdgesOnce
      <4> QED BY <1>1, <4>1, <4>2
    <3>2. CASE x \notin Range(s)
      <4>1. x = t /\ n # 0
        BY <2>4, <2>6, <3>2
      <4>2. d \in Range(deps)
        BY <1>2, <2>1, <4>1
      <4> QED BY <1>1, <4>1, <4>2
    <3> QED BY <3>1, <3>2
  <2> QED BY <2>3, <2>5, <2>6
<1>5. QueuedOnce'
  <2> SUFFICES ASSUME NEW e \in Entries, ready_queue'[e] > 0
               PROVE  /\ e[2] \in DOMAIN tasks'
                      /\ e[1] = tasks'[e[2]]
                      /\ ready_queue'[e] = 1
                      /\ handed[e[2]] = 0
                      /\ Range(dependency_graph'[e[2]]) \subseteq completed
    BY <1>1 DEF QueuedOnce, Queued, Range, Entries
  <2>1. /\ e[2] \in Tasks /\ ready_queue[e] \in Nat
        /\ e = <<priority, t>> => e[1] = priority /\ e[2] = t
    BY DEF Entries, TypeOK
  <2>2. CASE ready_queue[e] > 0
    <3>1. e \in Queued /\ e[2] \in DOMAIN tasks /\ e[2] # t
      BY <1>1, <2>2 DEF QueuedOnce, Queued
    <3>2. ready_queue'[e] = ready_queue[e]
      BY <2>1, <3>1 DEF Added, TypeOK
    <3> QED BY <1>1, <3>1, <3>2 DEF QueuedOnce
  <2>3. CASE ~(ready_queue[e] > 0)
    <3>1. StartsReady(deps) /\ e = <<priority, t>> /\ ready_queue'[e] = 1
      <4>1. ready_queue[e] = 0 /\ ready_queue' # ready_queue
        BY <2>1, <2>3
      <4>2. StartsReady(deps) /\ ready_queue' = [ready_queue EXCEPT ![<<priority, t>>] = @ + 1]
        BY <4>1 DEF Added
      <4>3. ready_queue \in [Entries -> Nat] /\ <<priority, t>> \in Entries
        BY DEF TypeOK, Entries
      <4>4. e = <<priority, t>>
        BY <4>1, <4>2, <4>3
      <4>5. ready_queue'[e] = ready_queue[e] + 1
        BY <4>2, <4>3, <4>4
      <4> QED BY <4>1, <4>2, <4>4, <4>5
    <3>2. handed[t] = 0
      BY <1>1 DEF HandedOnce
    <3> QED BY <1>1, <2>1, <3>1, <3>2 DEF StartsReady
  <2> QED BY <2>2, <2>3
<1>6. HandedOnce'
  <2> SUFFICES ASSUME NEW x \in Tasks
               PROVE  /\ handed[x] \in {0, 1}
                      /\ handed[x] = 1 => x \in DOMAIN tasks' /\ Range(dependency_graph'[x]) \subseteq completed
                      /\ x \in Decided => handed[x] = 1
    BY <1>1 DEF HandedOnce, Range, Decided
  <2> QED BY <1>1 DEF HandedOnce
<1> QED BY <1>4, <1>5, <1>6

(* The entry taken was the task's only one *)
LEMMA NextTaskCareful ==
  ASSUME ConstantsOK, careful, CarefulInv, TypeOK', NextTask
  PROVE  CarefulInv'
<1> USE DEF CarefulInv
<1>1. PICK e \in Live :
        /\ ready_queue' = [f \in Entries |->
             CASE f = e -> ready_queue[f] - 1
               [] Before(f, e) -> 0
               [] OTHER -> ready_queue[f]]
        /\ handed' = [handed EXCEPT ![e[2]] = @ + 1]
        /\ UNCHANGED <<dependency_graph, reverse_deps, tasks, completed, failed>>
  BY DEF NextTask
<1>2. /\ e \in Queued /\ e \in Entries /\ e[2] \in Tasks /\ e = <<e[1], e[2]>>
      /\ ready_queue[e] = 1 /\ handed[e[2]] = 0 /\ e[2] \in DOMAIN tasks
      /\ e[1] = tasks[e[2]]
      /\ Range(dependency_graph[e[2]]) \subseteq completed
  BY DEF Live, Queued, Entries, QueuedOnce
<1>3. handed'[e[2]] = 1 /\ \A x \in Tasks : x # e[2] => handed'[x] = handed[x]
  BY <1>1, <1>2 DEF TypeOK
<1>4. EdgesOnce'
  BY <1>1 DEF EdgesOnce, IsInjective, Range
<1>5. QueuedOnce'
  <2> SUFFICES ASSUME NEW f \in Entries, ready_queue'[f] > 0
               PROVE  /\ f[2] \in DOMAIN tasks
                      /\ f[1] = tasks[f[2]]
                      /\ ready_queue'[f] = 1
                      /\ handed'[f[2]] = 0
                      /\ Range(dependency_graph[f[2]]) \subseteq completed
    BY <1>1 DEF QueuedOnce, Queued, Range, Entries
  <2>1. f # e /\ ready_queue'[f] = ready_queue[f]
    <3>1. ready_queue'[e] = 0
      BY <1>1, <1>2
    <3>2. f # e /\ ~Before(f, e)
      BY <1>1, <3>1
    <3> QED BY <1>1, <3>2
  <2>2. /\ f \in Queued /\ f[2] \in DOMAIN tasks /\ f[1] = tasks[f[2]] /\ f[2] \in Tasks
        /\ f = <<f[1], f[2]>>
    BY <2>1 DEF QueuedOnce, Queued, Entries
  <2>3. f[2] # e[2]
    BY <1>2, <2>1, <2>2
  <2> QED BY <1>3, <2>1, <2>2, <2>3 DEF QueuedOnce
<1>6. HandedOnce'
  <2> SUFFICES ASSUME NEW x \in Tasks
               PROVE  /\ handed'[x] \in {0, 1}
                      /\ handed'[x] = 1 => x \in DOMAIN tasks /\ Range(dependency_graph[x]) \subseteq completed
                      /\ x \in Decided => handed'[x] = 1
    BY <1>1 DEF HandedOnce, Range, Decided
  <2> QED BY <1>2, <1>3 DEF HandedOnce
<1> QED BY <1>4, <1>5, <1>6

LEMMA NextTaskNoneCareful ==
  ASSUME CarefulInv, TypeOK', NextTaskNone
  PROVE  CarefulInv'
<1> USE DEF CarefulInv
<1>1. EdgesOnce'
  BY DEF EdgesOnce, IsInjective, Range, NextTaskNone
<1>2. QueuedOnce'
  BY DEF QueuedOnce, Queued, Entries, NextTaskNone
<1>3. HandedOnce'
  BY DEF HandedOnce, Range, Decided, NextTaskNone
<1> QED BY <1>1, <1>2, <1>3

(* A task that is unblocked had an open dependency until now, so that it   *)
(* was neither queued nor handed out                                       *)
LEMMA CompleteTaskCareful ==
  ASSUME ConstantsOK, careful, CarefulInv, TypeOK', NEW t \in Tasks, CompleteTask(t)
  PROVE  CarefulInv'
<1> DEFINE copies(x) == Cardinality(Positions(reverse_deps[t], x))
<1> USE DEF CarefulInv
<1>1. /\ t \in DOMAIN tasks /\ t \notin completed /\ handed[t] = 1
      /\ completed' = completed \cup {t}
      /\ UNCHANGED <<dependency_graph, reverse_deps, tasks, failed, handed>>
  BY DEF CompleteTask, Running, Decided, HandedOnce
<1>2. \A x \in Range(reverse_deps[t]) : copies(x) = 1
  <2>1. reverse_deps[t] \in Seq(DOMAIN tasks) /\ IsInjective(reverse_deps[t])
    BY DEF TypeOK, EdgesOnce
  <2> QED BY <2>1, PositionsCounted
<1>3. ready_queue' = [e \in Entries |->
        IF Unblocks(t, e[2]) /\ e[1] = tasks[e[2]]
        THEN ready_queue[e] + copies(e[2])
        ELSE ready_queue[e]]
  BY DEF CompleteTask
<1> HIDE DEF copies
<1>4. EdgesOnce'
  BY <1>1 DEF EdgesOnce, IsInjective, Range
<1>5. QueuedOnce'
  <2> SUFFICES ASSUME NEW e \in Entries, ready_queue'[e] > 0
               PROVE  /\ e[2] \in DOMAIN tasks
                      /\ e[1] = tasks[e[2]]
                      /\ ready_queue'[e] = 1
                      /\ handed[e[2]] = 0
                      /\ Range(dependency_graph[e[2]]) \subseteq completed \cup {t}
    BY <1>1 DEF QueuedOnce, Queued, Range, Entries
  <2>1. e[2] \in Tasks /\ ready_queue[e] \in Nat
    BY DEF Entries, TypeOK
  <2>2. CASE Unblocks(t, e[2]) /\ e[1] = tasks[e[2]]
    <3>1. /\ e[2] \in Range(reverse_deps[t])
          /\ Range(dependency_graph[e[2]]) \subseteq completed \cup {t}
      BY <2>2 DEF Unblocks, Unblocked
    <3>2. e[2] \in DOMAIN tasks
      <4>1. reverse_deps[t] \in Seq(DOMAIN tasks)
        BY DEF TypeOK
      <4> QED BY <3>1, <4>1, ElementOfSeq, LenProperties DEF Range
    <3>3. ~(Range(dependency_graph[e[2]]) \subseteq completed)
      BY <1>1, <3>1 DEF EdgesOnce
    <3>4. handed[e[2]] = 0
      BY <2>1, <3>3 DEF HandedOnce
    <3>5. ready_queue[e] = 0
      BY <2>1, <3>3 DEF QueuedOnce, Queued
    <3>6. ready_queue'[e] = 1
      BY <1>2, <1>3, <2>2, <3>1, <3>5
    <3> QED BY <2>2, <3>1, <3>2, <3>4, <3>6
  <2>3. CASE ~(Unblocks(t, e[2]) /\ e[1] = tasks[e[2]])
    <3>1. ready_queue'[e] = ready_queue[e]
      BY <1>3, <2>3
    <3> QED BY <3>1 DEF QueuedOnce, Queued
  <2> QED BY <2>2, <2>3
<1>6. HandedOnce'
  <2> SUFFICES ASSUME NEW x \in Tasks
               PROVE  /\ handed[x] \in {0, 1}
                      /\ handed[x] = 1 => x \in DOMAIN tasks /\ Range(dependency_graph[x]) \subseteq completed \cup {t}
                      /\ x \in Decided \cup {t} => handed[x] = 1
    BY <1>1 DEF HandedOnce, Range, Decided
  <2> QED BY <1>1 DEF HandedOnce
<1> QED BY <1>4, <1>5, <1>6

LEMMA FailTaskCareful ==
  ASSUME careful, CarefulInv, TypeOK', NEW t \in Tasks, FailTask(t)
  PROVE  CarefulInv'
<1> USE DEF CarefulInv
<1>1. handed[t] = 1 /\ failed' = failed \cup {t}
      /\ UNCHANGED <<ready_queue, dependency_graph, reverse_deps, tasks, completed, handed>>
  BY DEF FailTask, Running, HandedOnce
<1>2. EdgesOnce'
  BY <1>1 DEF EdgesOnce, IsInjective, Range
<1>3. QueuedOnce'
  BY <1>1 DEF QueuedOnce, Queued, Range, Entries
<1>4. HandedOnce'
  BY <1>1 DEF HandedOnce, Range, Decided
<1> QED BY <1>2, <1>3, <1>4

LEMMA StutterCareful ==
  ASSUME CarefulInv, UNCHANGED vars
  PROVE  CarefulInv'
<1> USE DEF CarefulInv, vars
<1>1. TypeOK'
  BY DEF TypeOK
<1>2. EdgesOnce'
  BY DEF EdgesOnce, IsInjective, Range
<1>3. QueuedOnce'
  BY DEF QueuedOnce, Queued, Range, Entries
<1>4. HandedOnce'
  BY DEF HandedOnce, Range, Decided
<1> QED BY <1>1, <1>2, <1>3, <1>4

LEMMA NextCareful ==
  ASSUME ConstantsOK, careful
  PROVE  IInv /\ CarefulInv /\ [Next]_vars => CarefulInv'
<1> SUFFICES ASSUME IInv, CarefulInv, [Next]_vars PROVE CarefulInv'
  OBVIOUS
<1>1. TypeOK'
  BY NextIInv DEF IInv
<1>2. ASSUME NEW t \in Tasks, NEW priority \in Priorities, NEW deps \in DepLists,
             AddTask(t, priority, deps) \/ AddTaskNoCheck(t, priority, deps)
      PROVE  CarefulInv'
  BY <1>1, <1>2, AddedCareful DEF AddTask, AddTaskNoCheck
<1>3. ASSUME NEW t \in Tasks, CompleteTask(t)
      PROVE  CarefulInv'
  BY <1>1, <1>3, CompleteTaskCareful
<1>4. ASSUME NEW t \in Tasks, FailTask(t)
      PROVE  CarefulInv'
  BY <1>1, <1>4, FailTaskCareful
<1>5. CASE NextTask
  BY <1>1, <1>5, NextTaskCareful
<1>6. CASE NextTaskNone
  BY <1>1, <1>6, NextTaskNoneCareful
<1>7. CASE UNCHANGED vars
  BY <1>7, StutterCareful
<1> QED BY <1>2, <1>3, <1>4, <1>5, <1>6, <1>7 DEF Next

(* Careful callers are given each task at most once, and only after all it *)
(* depends on was reported completed.                                      *)
THEOREM HandsOutOnce ==
  ASSUME ConstantsOK
  PROVE  Spec => []HandedOutOnce
<1> DEFINE Inv == IInv /\ (careful => CarefulInv)
<1>1. Init => Inv
  BY InitIInv, InitCareful
<1>2. Inv /\ [Next]_vars => Inv'
  <2> SUFFICES ASSUME Inv, [Next]_vars PROVE Inv'
    OBVIOUS
  <2>1. careful' = careful
    BY DEF Next, vars
  <2> QED BY <2>1, NextIInv, NextCareful
<1>3. Inv => HandedOutOnce
  BY DEF CarefulInv, HandedOnce, HandedOutOnce
<1> QED BY <1>1, <1>2, <1>3, PTL DEF Spec

=============================================================================

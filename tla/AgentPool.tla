------------------------------ MODULE AgentPool ------------------------------
(***************************************************************************)
(* The table of agents, kernel/src/agent/pool.rs.                          *)
(*                                                                         *)
(* AgentPool's methods take &self and lock the slots for one section at a  *)
(* time; the handle and the count of active agents are atomics outside     *)
(* that lock.  The global AGENT_POOL puts the whole pool behind one more   *)
(* lock: outer_lock says whether the callers go through it.  Nothing hands *)
(* out a reference to an agent in the pool (get returns a clone), so its   *)
(* agents stay in the state Creating and kill always removes them.         *)
(***************************************************************************)
EXTENDS Integers, FiniteSets, FiniteSetTheorems, TLAPS

CONSTANTS
  Threads,
  Slots,       \* the slots of the pool, 0 .. MAX_AGENTS - 1
  CountMod,    \* active_count is an unsigned number modulo CountMod
  MaxHandle    \* bound: handles ever allocated

ASSUME SlotsAssumption == Slots \subseteq Nat /\ Slots # {} /\ IsFiniteSet(Slots)
ASSUME CountModAssumption == CountMod \in Nat /\ Cardinality(Slots) < CountMod
ASSUME MaxHandleAssumption == MaxHandle \in Nat

VARIABLES
  outer_lock,    \* the callers hold the lock around the pool during a call
  agents,        \* the handle in each slot, 0 for an empty slot
  next_handle, active_count,
  pc,            \* the next step of each thread's call
  slot, handle,  \* the locals of each thread's call
  spawned,       \* history: the handles that spawn has returned
  killed         \* history: the handles that kill has removed

vars ==
  <<outer_lock, agents, next_handle, active_count, pc, slot, handle, spawned, killed>>

Empty == 0

Handles == 1 .. MaxHandle

Init ==
  /\ outer_lock \in BOOLEAN
  /\ agents = [s \in Slots |-> Empty]
  /\ next_handle = 1
  /\ active_count = 0
  /\ pc = [t \in Threads |-> "idle"]
  /\ slot = [t \in Threads |-> CHOOSE s \in Slots : TRUE]
  /\ handle = [t \in Threads |-> Empty]
  /\ spawned = {}
  /\ killed = {}

-----------------------------------------------------------------------------

Move(t, from, to) == pc[t] = from /\ pc' = [pc EXCEPT ![t] = to]

(* A call begins: under the outer lock, only when no other call is under way *)
Begin(t, to) ==
  /\ Move(t, "idle", to)
  /\ outer_lock => \A u \in Threads : pc[u] = "idle"

(* A kill empties the slot and decrements the count without letting go of  *)
(* the slots' lock; every other section holds it alone.                    *)
SlotsLocked == \E u \in Threads : pc[u] = "kill_count"

Free == {s \in Slots : agents[s] = Empty}

(* spawn: find the first free slot (EAGAIN if there is none), allocate the *)
(* handle, fill the slot, count the agent: four sections.                  *)

(* Mutated form of SpawnFindSlot: the first slot, free or not. *)
SpawnAnySlot(t) ==
  /\ Begin(t, "spawn_handle")
  /\ \E s \in Slots : /\ \A r \in Slots : s <= r
                      /\ slot' = [slot EXCEPT ![t] = s]
  /\ UNCHANGED <<agents, next_handle, active_count, handle, spawned, killed>>

SpawnFindSlot(t) ==
  /\ Begin(t, "spawn_handle")
  /\ ~SlotsLocked
  /\ \E s \in Free : /\ \A r \in Free : s <= r
                     /\ slot' = [slot EXCEPT ![t] = s]
  /\ UNCHANGED <<agents, next_handle, active_count, handle, spawned, killed>>

SpawnHandle(t) ==
  /\ Move(t, "spawn_handle", "spawn_insert")
  /\ next_handle <= MaxHandle
  /\ handle' = [handle EXCEPT ![t] = next_handle]
  /\ next_handle' = next_handle + 1
  /\ UNCHANGED <<agents, active_count, slot, spawned, killed>>

SpawnInsert(t) ==
  /\ Move(t, "spawn_insert", "spawn_count")
  /\ ~SlotsLocked
  /\ agents' = [agents EXCEPT ![slot[t]] = handle[t]]
  /\ UNCHANGED <<next_handle, active_count, slot, handle, spawned, killed>>

SpawnCount(t) ==
  /\ Move(t, "spawn_count", "idle")
  /\ active_count' = (active_count + 1) % CountMod
  /\ spawned' = spawned \cup {handle[t]}
  /\ UNCHANGED <<agents, next_handle, slot, handle, killed>>

(* kill(handle, signal) with signal 0 or 1 on an agent in the pool: its    *)
(* slot is emptied, then the count is decremented, under the slots' lock.  *)
(* Every other case (handle 0, ESRCH, EINVAL) changes nothing.             *)

KillRemove(t, h) ==
  /\ Begin(t, "kill_count")
  /\ ~SlotsLocked
  /\ \E s \in Slots : /\ agents[s] = h
                      /\ \A r \in Slots : agents[r] = h => s <= r
                      /\ agents' = [agents EXCEPT ![s] = Empty]
  /\ handle' = [handle EXCEPT ![t] = h]
  /\ killed' = killed \cup {h}
  /\ UNCHANGED <<next_handle, active_count, slot, spawned>>

KillCount(t) ==
  /\ Move(t, "kill_count", "idle")
  /\ active_count' = (active_count + CountMod - 1) % CountMod
  /\ UNCHANGED <<agents, next_handle, slot, handle, spawned, killed>>

Next ==
  /\ UNCHANGED outer_lock
  /\ \/ \E t \in Threads : SpawnFindSlot(t)
     \/ \E t \in Threads : SpawnHandle(t)
     \/ \E t \in Threads : SpawnInsert(t)
     \/ \E t \in Threads : SpawnCount(t)
     \/ \E t \in Threads, h \in Handles : KillRemove(t, h)
     \/ \E t \in Threads : KillCount(t)

Spec == Init /\ [][Next]_vars

-----------------------------------------------------------------------------

TypeOK ==
  /\ outer_lock \in BOOLEAN
  /\ agents \in [Slots -> Handles \cup {Empty}]
  /\ next_handle \in 1 .. MaxHandle + 1
  /\ active_count \in 0 .. CountMod - 1
  /\ slot \in [Threads -> Slots]
  /\ handle \in [Threads -> Handles \cup {Empty}]
  /\ spawned \subseteq Handles
  /\ killed \subseteq Handles

Pooled == {agents[s] : s \in Slots} \ {Empty}

(* An agent whose spawn has returned is in the pool until it is killed: no *)
(* other spawn takes its slot.                                             *)
SpawnedStay == spawned \ killed \subseteq Pooled

(* Between calls active_count is the number of agents in the pool. *)
CountExact ==
  (\A t \in Threads : pc[t] = "idle")
    => active_count = Cardinality({s \in Slots : agents[s] # Empty})

(* A handle names one agent for ever: it is in one slot only, and never    *)
(* comes back after a kill.                                                *)
HandleUnique ==
  /\ \A s, r \in Slots : agents[s] = agents[r] /\ agents[s] # Empty => s = r
  /\ Pooled \cap killed = {}

(* Handles are unique whatever the calls interleave; behind the lock of    *)
(* AGENT_POOL agents also stay, and are counted.                           *)
AgentsKept == HandleUnique /\ (outer_lock => SpawnedStay /\ CountExact)

-----------------------------------------------------------------------------
(* The inductive invariant *)

(* The handle of a spawn that has not filled its slot is new, and it is    *)
(* that spawn's alone.                                                     *)
HandlesFresh ==
  /\ \A h \in Pooled \cup killed \cup spawned : h < next_handle
  /\ \A t \in Threads :
       /\ pc[t] \in {"spawn_insert", "spawn_count"} => handle[t] \in 1 .. next_handle - 1
       /\ pc[t] = "spawn_insert" =>
            /\ handle[t] \notin Pooled \cup killed \cup spawned
            /\ \A u \in Threads :
                 pc[u] \in {"spawn_insert", "spawn_count"} /\ handle[u] = handle[t] => u = t

(* Behind the lock one call is under way at most *)
OneCall == \A t, u \in Threads : pc[t] # "idle" /\ pc[u] # "idle" => t = u

(* A spawn's slot stays free until it fills it, and its agent stays until  *)
(* it has counted it                                                       *)
SlotKept ==
  \A t \in Threads :
    /\ pc[t] \in {"spawn_handle", "spawn_insert"} => agents[slot[t]] = Empty
    /\ pc[t] = "spawn_count" => handle[t] \in Pooled

Occupied == {s \in Slots : agents[s] # Empty}

(* The count lags behind the slots by the call under way *)
CountLags ==
  /\ (\A t \in Threads : pc[t] \notin {"spawn_count", "kill_count"})
       => active_count = Cardinality(Occupied)
  /\ \A t \in Threads :
       /\ pc[t] = "spawn_count" => active_count + 1 = Cardinality(Occupied)
       /\ pc[t] = "kill_count" => active_count = Cardinality(Occupied) + 1

IInv ==
  /\ TypeOK
  /\ pc \in [Threads -> {"idle", "spawn_handle", "spawn_insert", "spawn_count", "kill_count"}]
  /\ HandleUnique
  /\ HandlesFresh
  /\ outer_lock => OneCall /\ SlotKept /\ SpawnedStay /\ CountLags

-----------------------------------------------------------------------------

LEMMA OccupiedFinite == IsFiniteSet(Occupied) /\ Cardinality(Occupied) \in 0 .. CountMod - 1
<1>1. IsFiniteSet(Slots) /\ Occupied \subseteq Slots
  BY SlotsAssumption DEF Occupied
<1>2. IsFiniteSet(Occupied) /\ Cardinality(Occupied) <= Cardinality(Slots)
  BY <1>1, FS_Subset
<1> QED BY <1>1, <1>2, FS_CardinalityType, CountModAssumption

(* An unsigned count does not wrap below CountMod. *)
LEMMA NoWrap ==
  ASSUME NEW n \in 0 .. CountMod - 1
  PROVE  n % CountMod = n /\ (n + CountMod) % CountMod = n
BY CountModAssumption

LEMMA HandlesNat ==
  ASSUME TypeOK
  PROVE  Pooled \cup killed \cup spawned \subseteq Handles /\ Handles \subseteq Nat \ {Empty}
<1>1. \A s \in Slots : agents[s] \in Handles \cup {Empty}
  BY DEF TypeOK
<1>2. Pooled \subseteq Handles
  BY <1>1 DEF Pooled
<1>3. Handles \subseteq Nat \ {Empty}
  BY MaxHandleAssumption DEF Handles, Empty
<1> QED BY <1>2, <1>3 DEF TypeOK

LEMMA InitIInv == Init => IInv
<1> SUFFICES ASSUME Init PROVE IInv
  OBVIOUS
<1> USE SlotsAssumption, CountModAssumption, MaxHandleAssumption
<1>1. (CHOOSE s \in Slots : TRUE) \in Slots
  OBVIOUS
<1>2. Cardinality(Slots) \in Nat
  BY FS_CardinalityType
<1>3. TypeOK
  BY <1>1, <1>2 DEF Init, TypeOK
<1>4. Pooled = {}
  BY DEF Init, Pooled
<1>5. HandleUnique /\ HandlesFresh
  BY <1>4 DEF Init, HandleUnique, HandlesFresh
<1>6. Occupied = {} /\ Cardinality({}) = 0
  BY FS_EmptySet DEF Init, Occupied
<1>7. OneCall /\ SlotKept /\ SpawnedStay /\ CountLags
  BY <1>4, <1>6 DEF Init, OneCall, SlotKept, SpawnedStay, CountLags
<1> QED BY <1>3, <1>5, <1>7 DEF Init, IInv

(* A call that begins behind the lock is the only one. *)
LEMMA BeginAlone ==
  ASSUME IInv, outer_lock, NEW t \in Threads, NEW to, Begin(t, to)
  PROVE  OneCall' /\ \A u \in Threads : u # t => pc'[u] = "idle"
BY DEF Begin, Move, OneCall, IInv

(* A call that goes on or returns stays the only one. *)
LEMMA MoveAlone ==
  ASSUME IInv, outer_lock, NEW t \in Threads, NEW from, NEW to, Move(t, from, to), from # "idle"
  PROVE  OneCall' /\ \A u \in Threads : u # t => pc[u] = "idle" /\ pc'[u] = "idle"
BY DEF Move, OneCall, IInv

LEMMA SpawnFindSlotIInv ==
  ASSUME IInv, UNCHANGED outer_lock, NEW t \in Threads, SpawnFindSlot(t)
  PROVE  IInv'
<1>1. PICK s \in Free : slot' = [slot EXCEPT ![t] = s]
  BY DEF SpawnFindSlot
<1>2. Begin(t, "spawn_handle") /\ pc[t] = "idle" /\ pc' = [pc EXCEPT ![t] = "spawn_handle"]
  BY DEF SpawnFindSlot, Begin, Move
<1>3. UNCHANGED <<agents, next_handle, active_count, handle, spawned, killed>>
  BY DEF SpawnFindSlot
<1>4. s \in Slots /\ agents[s] = Empty
  BY DEF Free
<1>5. TypeOK'
  BY <1>1, <1>3, <1>4 DEF IInv, TypeOK
<1>6. UNCHANGED <<Pooled, Occupied>>
  BY <1>3 DEF Pooled, Occupied
<1>7. HandleUnique' /\ HandlesFresh'
  BY <1>2, <1>3, <1>6 DEF IInv, HandleUnique, HandlesFresh
<1>8. ASSUME outer_lock PROVE OneCall' /\ SlotKept' /\ SpawnedStay' /\ CountLags'
  <2>1. OneCall' /\ \A u \in Threads : u # t => pc'[u] = "idle"
    BY <1>2, <1>8, BeginAlone
  <2>2. pc'[t] = "spawn_handle" /\ slot'[t] = s
    BY <1>1, <1>2 DEF IInv, TypeOK
  <2>3. SlotKept'
    BY <1>3, <1>4, <2>1, <2>2 DEF SlotKept
  <2>4. SpawnedStay'
    BY <1>3, <1>6, <1>8 DEF IInv, SpawnedStay
  <2>5. \A u \in Threads : pc[u] = "idle"
    BY <1>2, <1>8 DEF Begin
  <2>6. CountLags'
    BY <1>3, <1>6, <1>8, <2>1, <2>2, <2>5 DEF IInv, CountLags
  <2> QED BY <2>1, <2>3, <2>4, <2>6
<1>9. (pc \in [Threads -> {"idle", "spawn_handle", "spawn_insert", "spawn_count", "kill_count"}])'
  BY <1>2 DEF IInv
<1> QED BY <1>5, <1>7, <1>8, <1>9 DEF IInv

LEMMA SpawnHandleIInv ==
  ASSUME IInv, UNCHANGED outer_lock, NEW t \in Threads, SpawnHandle(t)
  PROVE  IInv'
<1>1. /\ Move(t, "spawn_handle", "spawn_insert")
      /\ pc[t] = "spawn_handle" /\ pc' = [pc EXCEPT ![t] = "spawn_insert"]
      /\ next_handle <= MaxHandle
      /\ handle' = [handle EXCEPT ![t] = next_handle]
      /\ next_handle' = next_handle + 1
      /\ UNCHANGED <<agents, active_count, slot, spawned, killed>>
  BY DEF SpawnHandle, Move
<1>2. next_handle \in 1 .. MaxHandle
  BY <1>1, MaxHandleAssumption DEF IInv, TypeOK
<1>3. TypeOK'
  BY <1>1, <1>2, MaxHandleAssumption DEF IInv, TypeOK, Handles
<1>4. UNCHANGED <<Pooled, Occupied>>
  BY <1>1 DEF Pooled, Occupied
<1>5. HandleUnique'
  BY <1>1, <1>4 DEF IInv, HandleUnique
<1>6. Pooled \cup killed \cup spawned \subseteq Nat
  BY HandlesNat DEF IInv
<1>7. HandlesFresh'
  <2>1. \A h \in (Pooled \cup killed \cup spawned)' : h < next_handle'
    BY <1>1, <1>2, <1>4, <1>6 DEF IInv, HandlesFresh
  <2>2. \A u \in Threads \ {t} : pc'[u] = pc[u] /\ handle'[u] = handle[u]
    BY <1>1 DEF IInv, TypeOK
  <2>3. pc'[t] = "spawn_insert" /\ handle'[t] = next_handle
    BY <1>1 DEF IInv, TypeOK
  <2>4. next_handle \notin Pooled \cup killed \cup spawned
    BY <1>2, <1>6 DEF IInv, HandlesFresh
  <2>5. \A u \in Threads \ {t} :
          pc[u] \in {"spawn_insert", "spawn_count"} => handle[u] # next_handle
    BY <1>2 DEF IInv, HandlesFresh
  <2>6. ASSUME NEW u \in Threads, pc'[u] \in {"spawn_insert", "spawn_count"}
        PROVE  handle'[u] \in 1 .. next_handle' - 1
    <3>1. CASE u = t
      BY <1>1, <1>2, <2>3, <3>1
    <3>2. CASE u # t
      BY <1>1, <1>2, <2>2, <2>6, <3>2 DEF IInv, HandlesFresh
    <3> QED BY <3>1, <3>2
  <2>7. ASSUME NEW u \in Threads, pc'[u] = "spawn_insert"
        PROVE  /\ handle'[u] \notin (Pooled \cup killed \cup spawned)'
               /\ \A v \in Threads :
                    pc'[v] \in {"spawn_insert", "spawn_count"} /\ handle'[v] = handle'[u] => v = u
    <3>1. CASE u = t
      BY <1>1, <1>4, <2>2, <2>3, <2>4, <2>5, <3>1
    <3>2. CASE u # t
      BY <1>1, <1>4, <2>2, <2>3, <2>5, <2>7, <3>2 DEF IInv, HandlesFresh
    <3> QED BY <3>1, <3>2
  <2> QED BY <2>1, <2>6, <2>7 DEF HandlesFresh
<1>8. ASSUME outer_lock PROVE OneCall' /\ SlotKept' /\ SpawnedStay' /\ CountLags'
  <2>1. OneCall' /\ \A u \in Threads : u # t => pc[u] = "idle" /\ pc'[u] = "idle"
    BY <1>1, <1>8, MoveAlone
  <2>2. pc'[t] = "spawn_insert"
    BY <1>1 DEF IInv
  <2>3. SlotKept'
    BY <1>1, <1>8, <2>1, <2>2 DEF IInv, SlotKept
  <2>4. SpawnedStay'
    BY <1>1, <1>4, <1>8 DEF IInv, SpawnedStay
  <2>5. CountLags'
    BY <1>1, <1>4, <1>8, <2>1, <2>2 DEF IInv, CountLags
  <2> QED BY <2>1, <2>3, <2>4, <2>5
<1>9. (pc \in [Threads -> {"idle", "spawn_handle", "spawn_insert", "spawn_count", "kill_count"}])'
  BY <1>1 DEF IInv
<1> QED BY <1>3, <1>5, <1>7, <1>8, <1>9 DEF IInv

LEMMA SpawnInsertIInv ==
  ASSUME IInv, UNCHANGED outer_lock, NEW t \in Threads, SpawnInsert(t)
  PROVE  IInv'
<1>1. /\ Move(t, "spawn_insert", "spawn_count")
      /\ pc[t] = "spawn_insert" /\ pc' = [pc EXCEPT ![t] = "spawn_count"]
      /\ agents' = [agents EXCEPT ![slot[t]] = handle[t]]
      /\ UNCHANGED <<next_handle, active_count, slot, handle, spawned, killed>>
  BY DEF SpawnInsert, Move
<1>2. TypeOK'
  BY <1>1 DEF IInv, TypeOK
<1>3. /\ handle[t] \in 1 .. next_handle - 1
      /\ handle[t] \notin Pooled \cup killed \cup spawned
      /\ \A u \in Threads :
           pc[u] \in {"spawn_insert", "spawn_count"} /\ handle[u] = handle[t] => u = t
  BY <1>1 DEF IInv, HandlesFresh
<1>4. handle[t] # Empty /\ slot[t] \in Slots
  BY <1>3, MaxHandleAssumption DEF IInv, TypeOK, Empty
<1>5. \A s \in Slots : agents'[s] = IF s = slot[t] THEN handle[t] ELSE agents[s]
  BY <1>1 DEF IInv, TypeOK
<1>6. \A s \in Slots : agents[s] # handle[t]
  BY <1>3, <1>4 DEF Pooled
<1>7. Pooled' \subseteq Pooled \cup {handle[t]}
  BY <1>5 DEF Pooled
<1>8. HandleUnique'
  <2>1. ASSUME NEW s \in Slots, NEW r \in Slots, agents'[s] = agents'[r], agents'[s] # Empty
        PROVE  s = r
    BY <1>5, <1>6, <2>1 DEF IInv, HandleUnique
  <2>2. (Pooled \cap killed)' = {}
    BY <1>1, <1>3, <1>7 DEF IInv, HandleUnique
  <2> QED BY <2>1, <2>2 DEF HandleUnique
<1>9. HandlesFresh'
  <2>1. \A h \in (Pooled \cup killed \cup spawned)' : h < next_handle'
    BY <1>1, <1>3, <1>7 DEF IInv, HandlesFresh, TypeOK
  <2>2. \A u \in Threads \ {t} : pc'[u] = pc[u] /\ handle'[u] = handle[u]
    BY <1>1 DEF IInv, TypeOK
  <2>3. pc'[t] = "spawn_count" /\ handle'[t] = handle[t]
    BY <1>1 DEF IInv, TypeOK
  <2>4. ASSUME NEW u \in Threads, pc'[u] \in {"spawn_insert", "spawn_count"}
        PROVE  handle'[u] \in 1 .. next_handle' - 1
    BY <1>1, <1>3, <2>2, <2>3, <2>4 DEF IInv, HandlesFresh
  <2>5. ASSUME NEW u \in Threads, pc'[u] = "spawn_insert"
        PROVE  /\ handle'[u] \notin (Pooled \cup killed \cup spawned)'
               /\ \A v \in Threads :
                    pc'[v] \in {"spawn_insert", "spawn_count"} /\ handle'[v] = handle'[u] => v = u
    <3>1. u # t /\ pc[u] = "spawn_insert" /\ handle'[u] = handle[u]
      BY <2>2, <2>3, <2>5
    <3>2. handle[u] # handle[t] /\ handle[u] \notin Pooled \cup killed \cup spawned
      BY <1>1, <3>1 DEF IInv, HandlesFresh
    <3>3. handle'[u] \notin (Pooled \cup killed \cup spawned)'
      BY <1>1, <1>7, <3>1, <3>2
    <3>4. ASSUME NEW v \in Threads,
                 pc'[v] \in {"spawn_insert", "spawn_count"}, handle'[v] = handle'[u]
          PROVE  v = u
      BY <2>2, <2>3, <3>1, <3>2, <3>4 DEF IInv, HandlesFresh
    <3> QED BY <3>3, <3>4
  <2> QED BY <2>1, <2>4, <2>5 DEF HandlesFresh
<1>10. ASSUME outer_lock PROVE OneCall' /\ SlotKept' /\ SpawnedStay' /\ CountLags'
  <2>1. OneCall' /\ \A u \in Threads : u # t => pc[u] = "idle" /\ pc'[u] = "idle"
    BY <1>1, <1>10, MoveAlone
  <2>2. pc'[t] = "spawn_count" /\ handle'[t] = handle[t] /\ agents[slot[t]] = Empty
    BY <1>1, <1>10 DEF IInv, SlotKept
  <2>3. Pooled' = Pooled \cup {handle[t]}
    <3>1. Pooled \subseteq Pooled'
      BY <1>5, <2>2 DEF Pooled
    <3>2. handle[t] \in Pooled'
      BY <1>4, <1>5 DEF Pooled
    <3> QED BY <1>7, <3>1, <3>2
  <2>4. SlotKept'
    BY <2>1, <2>2, <2>3 DEF SlotKept
  <2>5. SpawnedStay'
    BY <1>1, <1>10, <2>3 DEF IInv, SpawnedStay
  <2>6. CountLags'
    <3>1. Occupied' = Occupied \cup {slot[t]} /\ slot[t] \notin Occupied
      BY <1>4, <1>5, <2>2 DEF Occupied
    <3>2. Cardinality(Occupied') = Cardinality(Occupied) + 1
      BY <3>1, OccupiedFinite, FS_AddElement
    <3>3. active_count = Cardinality(Occupied)
      BY <1>1, <1>10, <2>1 DEF IInv, CountLags
    <3> QED BY <1>1, <2>1, <2>2, <3>2, <3>3 DEF CountLags
  <2> QED BY <2>1, <2>4, <2>5, <2>6
<1>11. (pc \in [Threads -> {"idle", "spawn_handle", "spawn_insert", "spawn_count", "kill_count"}])'
  BY <1>1 DEF IInv
<1> QED BY <1>2, <1>8, <1>9, <1>10, <1>11 DEF IInv

LEMMA SpawnCountIInv ==
  ASSUME IInv, UNCHANGED outer_lock, NEW t \in Threads, SpawnCount(t)
  PROVE  IInv'
<1>1. /\ Move(t, "spawn_count", "idle")
      /\ pc[t] = "spawn_count" /\ pc' = [pc EXCEPT ![t] = "idle"]
      /\ active_count' = (active_count + 1) % CountMod
      /\ spawned' = spawned \cup {handle[t]}
      /\ UNCHANGED <<agents, next_handle, slot, handle, killed>>
  BY DEF SpawnCount, Move
<1>2. handle[t] \in 1 .. next_handle - 1
  BY <1>1 DEF IInv, HandlesFresh
<1>3. TypeOK'
  <2>1. active_count' \in 0 .. CountMod - 1
    BY <1>1, OccupiedFinite, CountModAssumption DEF IInv, TypeOK
  <2>2. spawned' \subseteq Handles
    <3>1. handle[t] \in Handles
      BY <1>2, MaxHandleAssumption DEF IInv, TypeOK, Handles
    <3> QED BY <1>1, <3>1 DEF IInv, TypeOK
  <2> QED BY <1>1, <2>1, <2>2 DEF IInv, TypeOK
<1>4. UNCHANGED <<Pooled, Occupied>>
  BY <1>1 DEF Pooled, Occupied
<1>5. HandleUnique'
  BY <1>1, <1>4 DEF IInv, HandleUnique
<1>6. HandlesFresh'
  <2>1. \A h \in (Pooled \cup killed \cup spawned)' : h < next_handle'
    BY <1>1, <1>2, <1>4 DEF IInv, HandlesFresh, TypeOK
  <2>2. \A u \in Threads : handle'[u] = handle[u] /\ (u # t => pc'[u] = pc[u])
    BY <1>1 DEF IInv, TypeOK
  <2>3. pc'[t] = "idle"
    BY <1>1 DEF IInv
  <2>4. ASSUME NEW u \in Threads, pc'[u] \in {"spawn_insert", "spawn_count"}
        PROVE  handle'[u] \in 1 .. next_handle' - 1
    BY <1>1, <2>2, <2>3, <2>4 DEF IInv, HandlesFresh
  <2>5. ASSUME NEW u \in Threads, pc'[u] = "spawn_insert"
        PROVE  /\ handle'[u] \notin (Pooled \cup killed \cup spawned)'
               /\ \A v \in Threads :
                    pc'[v] \in {"spawn_insert", "spawn_count"} /\ handle'[v] = handle'[u] => v = u
    <3>1. u # t /\ pc[u] = "spawn_insert"
      BY <2>2, <2>3, <2>5
    <3>2. handle[u] # handle[t]
      BY <1>1, <3>1 DEF IInv, HandlesFresh
    <3> QED BY <1>1, <1>4, <2>2, <2>3, <3>1, <3>2 DEF IInv, HandlesFresh
  <2> QED BY <2>1, <2>4, <2>5 DEF HandlesFresh
<1>7. ASSUME outer_lock PROVE OneCall' /\ SlotKept' /\ SpawnedStay' /\ CountLags'
  <2>1. OneCall' /\ \A u \in Threads : u # t => pc[u] = "idle" /\ pc'[u] = "idle"
    BY <1>1, <1>7, MoveAlone
  <2>2. pc'[t] = "idle" /\ handle[t] \in Pooled
    BY <1>1, <1>7 DEF IInv, SlotKept
  <2>3. SlotKept'
    BY <2>1, <2>2 DEF SlotKept
  <2>4. SpawnedStay'
    BY <1>1, <1>4, <1>7, <2>2 DEF IInv, SpawnedStay
  <2>5. CountLags'
    <3>1. active_count + 1 = Cardinality(Occupied)
      BY <1>1, <1>7 DEF IInv, CountLags
    <3>2. active_count' = Cardinality(Occupied)
      BY <1>1, <3>1, OccupiedFinite, NoWrap
    <3> QED BY <1>4, <2>1, <2>2, <3>2 DEF CountLags
  <2> QED BY <2>1, <2>3, <2>4, <2>5
<1>8. (pc \in [Threads -> {"idle", "spawn_handle", "spawn_insert", "spawn_count", "kill_count"}])'
  BY <1>1 DEF IInv
<1> QED BY <1>3, <1>5, <1>6, <1>7, <1>8 DEF IInv

LEMMA KillRemoveIInv ==
  ASSUME IInv, UNCHANGED outer_lock, NEW t \in Threads, NEW h \in Handles, KillRemove(t, h)
  PROVE  IInv'
<1>1. PICK s \in Slots : agents[s] = h /\ agents' = [agents EXCEPT ![s] = Empty]
  BY DEF KillRemove
<1>2. /\ Begin(t, "kill_count")
      /\ pc[t] = "idle" /\ pc' = [pc EXCEPT ![t] = "kill_count"]
      /\ handle' = [handle EXCEPT ![t] = h]
      /\ killed' = killed \cup {h}
      /\ UNCHANGED <<next_handle, active_count, slot, spawned>>
  BY DEF KillRemove, Begin, Move
<1>3. TypeOK'
  BY <1>1, <1>2 DEF IInv, TypeOK
<1>4. h # Empty /\ h \in Pooled
  BY <1>1, HandlesNat DEF IInv, Pooled
<1>5. \A r \in Slots : agents'[r] = IF r = s THEN Empty ELSE agents[r]
  BY <1>1 DEF IInv, TypeOK
<1>6. \A r \in Slots : agents[r] = h => r = s
  BY <1>1, <1>4 DEF IInv, HandleUnique
<1>7. Pooled' = Pooled \ {h}
  <2>1. Pooled' \subseteq Pooled \ {h}
    BY <1>5, <1>6 DEF Pooled
  <2>2. ASSUME NEW g \in Pooled, g # h PROVE g \in Pooled'
    <3>1. PICK r \in Slots : agents[r] = g /\ g # Empty
      BY DEF Pooled
    <3>2. r # s
      BY <1>1, <2>2, <3>1
    <3> QED BY <1>5, <3>1, <3>2 DEF Pooled
  <2> QED BY <2>1, <2>2
<1>8. HandleUnique'
  <2>1. ASSUME NEW q \in Slots, NEW r \in Slots, agents'[q] = agents'[r], agents'[q] # Empty
        PROVE  q = r
    BY <1>5, <2>1 DEF IInv, HandleUnique
  <2>2. (Pooled \cap killed)' = {}
    BY <1>2, <1>7 DEF IInv, HandleUnique
  <2> QED BY <2>1, <2>2 DEF HandleUnique
<1>9. HandlesFresh'
  <2>1. (Pooled \cup killed \cup spawned)' = Pooled \cup killed \cup spawned
    BY <1>2, <1>4, <1>7
  <2>2. \A u \in Threads \ {t} : pc'[u] = pc[u] /\ handle'[u] = handle[u]
    BY <1>2 DEF IInv, TypeOK
  <2>3. pc'[t] = "kill_count"
    BY <1>2 DEF IInv
  <2> QED BY <1>2, <2>1, <2>2, <2>3 DEF IInv, HandlesFresh
<1>10. ASSUME outer_lock PROVE OneCall' /\ SlotKept' /\ SpawnedStay' /\ CountLags'
  <2>1. OneCall' /\ \A u \in Threads : u # t => pc'[u] = "idle"
    BY <1>2, <1>10, BeginAlone
  <2>2. pc'[t] = "kill_count" /\ \A u \in Threads : pc[u] = "idle"
    BY <1>2, <1>10 DEF IInv, Begin
  <2>3. SlotKept'
    BY <2>1, <2>2 DEF SlotKept
  <2>4. SpawnedStay'
    BY <1>2, <1>7, <1>10 DEF IInv, SpawnedStay
  <2>5. CountLags'
    <3>1. Occupied' = Occupied \ {s} /\ s \in Occupied
      BY <1>1, <1>4, <1>5 DEF Occupied
    <3>2. Cardinality(Occupied') = Cardinality(Occupied) - 1
      BY <3>1, OccupiedFinite, FS_RemoveElement
    <3>3. active_count = Cardinality(Occupied)
      BY <1>10, <2>2 DEF IInv, CountLags
    <3>4. active_count' = Cardinality(Occupied') + 1
      BY <1>2, <3>2, <3>3, OccupiedFinite
    <3> QED BY <2>1, <2>2, <3>4 DEF CountLags
  <2> QED BY <2>1, <2>3, <2>4, <2>5
<1>11. (pc \in [Threads -> {"idle", "spawn_handle", "spawn_insert", "spawn_count", "kill_count"}])'
  BY <1>2 DEF IInv
<1> QED BY <1>3, <1>8, <1>9, <1>10, <1>11 DEF IInv

LEMMA KillCountIInv ==
  ASSUME IInv, UNCHANGED outer_lock, NEW t \in Threads, KillCount(t)
  PROVE  IInv'
<1>1. /\ Move(t, "kill_count", "idle")
      /\ pc[t] = "kill_count" /\ pc' = [pc EXCEPT ![t] = "idle"]
      /\ active_count' = (active_count + CountMod - 1) % CountMod
      /\ UNCHANGED <<agents, next_handle, slot, handle, spawned, killed>>
  BY DEF KillCount, Move
<1>2. active_count \in Int /\ CountMod \in Nat \ {0}
  BY OccupiedFinite, CountModAssumption DEF IInv, TypeOK
<1>3. TypeOK'
  BY <1>1, <1>2 DEF IInv, TypeOK
<1>4. UNCHANGED <<Pooled, Occupied>>
  BY <1>1 DEF Pooled, Occupied
<1>5. HandleUnique'
  BY <1>1, <1>4 DEF IInv, HandleUnique
<1>6. HandlesFresh'
  <2>1. \A u \in Threads : pc'[u] = (IF u = t THEN "idle" ELSE pc[u])
    BY <1>1 DEF IInv
  <2> QED BY <1>1, <1>4, <2>1 DEF IInv, HandlesFresh
<1>7. ASSUME outer_lock PROVE OneCall' /\ SlotKept' /\ SpawnedStay' /\ CountLags'
  <2>1. OneCall' /\ \A u \in Threads : u # t => pc[u] = "idle" /\ pc'[u] = "idle"
    BY <1>1, <1>7, MoveAlone
  <2>2. pc'[t] = "idle"
    BY <1>1 DEF IInv
  <2>3. SlotKept'
    BY <2>1, <2>2 DEF SlotKept
  <2>4. SpawnedStay'
    BY <1>1, <1>4, <1>7 DEF IInv, SpawnedStay
  <2>5. CountLags'
    <3>1. active_count = Cardinality(Occupied) + 1
      BY <1>1, <1>7 DEF IInv, CountLags
    <3>2. active_count + CountMod - 1 = Cardinality(Occupied) + CountMod
      BY <3>1, <1>2, OccupiedFinite
    <3>3. active_count' = Cardinality(Occupied)
      BY <1>1, <3>2, OccupiedFinite, NoWrap
    <3> QED BY <1>4, <2>1, <2>2, <3>3 DEF CountLags
  <2> QED BY <2>1, <2>3, <2>4, <2>5
<1>8. (pc \in [Threads -> {"idle", "spawn_handle", "spawn_insert", "spawn_count", "kill_count"}])'
  BY <1>1 DEF IInv
<1> QED BY <1>3, <1>5, <1>6, <1>7, <1>8 DEF IInv

LEMMA NextIInv == IInv /\ [Next]_vars => IInv'
<1> SUFFICES ASSUME IInv, [Next]_vars PROVE IInv'
  OBVIOUS
<1>1. CASE UNCHANGED vars
  BY <1>1 DEF vars, IInv, TypeOK, HandleUnique, HandlesFresh, OneCall, SlotKept, SpawnedStay,
              CountLags, Pooled, Occupied
<1>2. CASE Next
  BY <1>2, SpawnFindSlotIInv, SpawnHandleIInv, SpawnInsertIInv, SpawnCountIInv,
     KillRemoveIInv, KillCountIInv DEF Next
<1> QED BY <1>1, <1>2

(* However many threads call spawn and kill, and whether or not they hold  *)
(* the lock of AGENT_POOL, a handle names one agent for ever; with the     *)
(* lock no spawned agent is lost and active_count is right after each call *)
(* (AgentPool::spawn, AgentPool::kill).                                    *)
THEOREM KeepsAgents == Spec => []AgentsKept
<1>1. IInv => AgentsKept
  <2> SUFFICES ASSUME IInv, outer_lock PROVE CountExact
    BY DEF IInv, AgentsKept
  <2> QED BY DEF IInv, CountLags, CountExact, Occupied
<1> QED BY InitIInv, NextIInv, <1>1, PTL DEF Spec

=============================================================================

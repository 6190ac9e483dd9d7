-------------------------- MODULE AgentControlBlock --------------------------
(***************************************************************************)
(* The shared fields of one agent, kernel/src/agent/control_block.rs.      *)
(*                                                                         *)
(* Its methods take &self and work on atomics without a lock: set_state    *)
(* loads the state, checks the transition and stores; update_memory stores *)
(* the use and then raises the peak with a compare-and-exchange loop, and  *)
(* to_info and clone load one field after the other.  One step here is one *)
(* access to an atomic; to_info and clone load the fields of which no      *)
(* property compares two in one step.                                      *)
(***************************************************************************)
EXTENDS Integers, FiniteSets, TLAPS

CONSTANTS
  Updaters,    \* callers on the same control block
  MemSizes,    \* the amounts reported to update_memory
  MemoryLimit, \* memory_limit and max_threads, 0 for none
  MaxThreads,
  CounterMod,  \* what the counters wrap at, 2^32 or 2^64 in the code
  MaxCount     \* bound: what a counter is above 0 when it is added to

(* What the code guarantees of the constants: fewer threads run than a      *)
(* counter can count                                                       *)
ConstantsOK ==
  /\ MemSizes \subseteq Nat /\ MemoryLimit \in Nat /\ MaxThreads \in Nat
  /\ CounterMod \in Nat \ {0}
  /\ MaxCount \in Nat /\ MaxCount < CounterMod

ASSUME AgentAssumption == ConstantsOK

VARIABLES
  state, memory_used, memory_peak,
  counters,    \* the atomics that are added to and subtracted from
  stored,      \* the atomics that are only stored
  acb_call,    \* the locals of each thread's call, Idle between calls
  reported,    \* history: the amounts stored in memory_used so far
  running,     \* history: what was added to a counter less what was subtracted
  info         \* what to_info returned last, with the amounts under way then

agentvars == <<state, memory_used, memory_peak, counters, stored, acb_call, reported, running, info>>

(* Those that calls subtract from, and all that calls add to *)
Populations == {"thread_count", "connection_count"}
MessageCounts == {"msg_sent", "msg_received"}
Counters == Populations \cup MessageCounts \cup {"cpu_time_ns"}

(* What calls only store *)
StoredFields == {"create_time_ns", "last_active_ns", "current_cpu"}

AgentStates ==
  {"Creating", "Ready", "Running", "Waiting", "Frozen", "Migrating",
   "Terminating", "Terminated", "Failed"}

(* The transitions set_state accepts *)
IsValid(from, to) ==
  \/ <<from, to>> \in
       {<<"Creating", "Ready">>, <<"Ready", "Running">>, <<"Running", "Waiting">>,
        <<"Running", "Frozen">>, <<"Running", "Terminating">>, <<"Waiting", "Running">>,
        <<"Waiting", "Terminating">>, <<"Frozen", "Running">>,
        <<"Frozen", "Terminating">>, <<"Terminating", "Terminated">>}
  \/ to = "Failed"
  \/ from = to

Idle == [op |-> "idle"]

Calls ==
  {Idle}
  \cup [op : {"set_state"}, new_state : AgentStates]
  \cup [op : {"load_peak"}, used : MemSizes]
  \cup [op : {"raise_peak"}, used : MemSizes, current_peak : MemSizes \cup {0}]
  \cup [op : {"to_info"}, used : MemSizes \cup {0}]

AgentInit ==
  /\ state = "Creating"
  /\ memory_used = 0
  /\ memory_peak = 0
  /\ acb_call = [t \in Updaters |-> Idle]
  /\ counters = [c \in Counters |-> 0]
  /\ stored = [field \in StoredFields |-> 0]
  /\ reported = {0}
  /\ running = [c \in Counters |-> 0]
  /\ info = [used |-> 0, peak |-> 0, counts |-> counters, times |-> stored, pending |-> {}]

countvars == <<counters, stored, running>>

SetCall(t, c) == acb_call' = [acb_call EXCEPT ![t] = c]

(* set_state: EAGENT_INVALID_STATE when the loaded state has no such       *)
(* transition                                                              *)
SetStateLoads(t, new_state) ==
  /\ acb_call[t] = Idle
  /\ IsValid(state, new_state)
  /\ SetCall(t, [op |-> "set_state", new_state |-> new_state])
  /\ UNCHANGED <<state, memory_used, memory_peak, reported, countvars, info>>

SetStateStores(t) ==
  /\ acb_call[t].op = "set_state"
  /\ state' = acb_call[t].new_state
  /\ SetCall(t, Idle)
  /\ UNCHANGED <<memory_used, memory_peak, reported, countvars, info>>

UpdateMemory(t, used) ==
  /\ acb_call[t] = Idle
  /\ memory_used' = used
  /\ reported' = reported \cup {used}
  /\ SetCall(t, [op |-> "load_peak", used |-> used])
  /\ UNCHANGED <<state, memory_peak, countvars, info>>

(* The loop goes on with the peak it has just seen *)
Retry(t, used, peak) ==
  SetCall(t, IF used <= peak THEN Idle
             ELSE [op |-> "raise_peak", used |-> used, current_peak |-> peak])

LoadPeak(t) ==
  /\ acb_call[t].op = "load_peak"
  /\ Retry(t, acb_call[t].used, memory_peak)
  /\ UNCHANGED <<state, memory_used, memory_peak, reported, countvars, info>>

RaisePeak(t) ==
  /\ acb_call[t].op = "raise_peak"
  /\ acb_call[t].current_peak = memory_peak
  /\ memory_peak' = acb_call[t].used
  /\ SetCall(t, Idle)
  /\ UNCHANGED <<state, memory_used, reported, countvars, info>>

(* Mutated form of RaiseFails: the loop is left after a failed exchange. *)
GiveUp(t) ==
  /\ acb_call[t].op = "raise_peak"
  /\ SetCall(t, Idle)
  /\ UNCHANGED <<state, memory_used, memory_peak, reported, countvars, info>>

(* The weak exchange fails when the peak has changed, and may fail without *)
(* reason                                                                  *)
RaiseFails(t) ==
  /\ acb_call[t].op = "raise_peak"
  /\ Retry(t, acb_call[t].used, memory_peak)
  /\ UNCHANGED <<state, memory_used, memory_peak, reported, countvars, info>>

(* inc_thread_count, inc_connection_count and the like: fetch_add and       *)
(* fetch_sub wrap, and nothing keeps a count from going below 0            *)
Add(c, n) ==
  /\ counters' = [counters EXCEPT ![c] = (@ + n) % CounterMod]
  /\ running' = [running EXCEPT ![c] = @ + n]
  /\ UNCHANGED <<state, memory_used, memory_peak, stored, acb_call, reported, info>>

(* inc_msg_sent, inc_msg_received *)
IncMsgCount(c) == Add(c, 1)

AddCpuTime(ns) == Add("cpu_time_ns", ns)

(* dec_thread_count, dec_connection_count *)
Subtract(c) ==
  /\ counters' = [counters EXCEPT ![c] = (@ - 1) % CounterMod]
  /\ running' = [running EXCEPT ![c] = @ - 1]
  /\ UNCHANGED <<state, memory_used, memory_peak, stored, acb_call, reported, info>>

(* set_create_time and touch *)
Store(field, value) ==
  /\ stored' = [stored EXCEPT ![field] = value]
  /\ UNCHANGED <<state, memory_used, memory_peak, counters, running, acb_call, reported, info>>

SetCurrentCpu(cpu) == Store("current_cpu", cpu)

(* The amounts of updates that have not raised the peak yet *)
Pending ==
  {acb_call[t].used : t \in {u \in Updaters : acb_call[u].op \in {"load_peak", "raise_peak"}}}

(* to_info and clone load the use before the peak *)
InfoLoadsUsed(t) ==
  /\ acb_call[t] = Idle
  /\ SetCall(t, [op |-> "to_info", used |-> memory_used])
  /\ UNCHANGED <<state, memory_used, memory_peak, reported, countvars, info>>

InfoReturns(t) ==
  /\ acb_call[t].op = "to_info"
  /\ info' = [used |-> acb_call[t].used, peak |-> memory_peak, counts |-> counters,
              times |-> stored, pending |-> Pending]
  /\ SetCall(t, Idle)
  /\ UNCHANGED <<state, memory_used, memory_peak, reported, countvars>>

(* check_quota, of the use and the count it has loaded *)
CheckQuota(used, threads) ==
  /\ MemoryLimit > 0 => used <= MemoryLimit
  /\ MaxThreads > 0 => threads <= MaxThreads

(* Bounds: a count goes up to MaxCount and a step below 0; two values to   *)
(* store                                                                   *)
AgentNext ==
  \/ \E t \in Updaters, s \in AgentStates : SetStateLoads(t, s)
  \/ \E t \in Updaters : SetStateStores(t)
  \/ \E t \in Updaters, used \in MemSizes : UpdateMemory(t, used)
  \/ \E t \in Updaters : LoadPeak(t)
  \/ \E t \in Updaters : RaisePeak(t)
  \/ \E t \in Updaters : RaiseFails(t)
  \/ \E t \in Updaters : InfoLoadsUsed(t)
  \/ \E t \in Updaters : InfoReturns(t)
  \/ \E c \in Populations : running[c] < MaxCount /\ Add(c, 1)
  \/ \E c \in MessageCounts : running[c] < MaxCount /\ IncMsgCount(c)
  \/ \E ns \in {1, 2} : running["cpu_time_ns"] < MaxCount /\ AddCpuTime(ns)
  \/ \E c \in Populations : running[c] > -1 /\ Subtract(c)
  \/ \E field \in StoredFields, ns \in {1, 2} : field # "current_cpu" /\ Store(field, ns)
  \/ \E cpu \in {1, 2} : SetCurrentCpu(cpu)

AgentSpec == AgentInit /\ [][AgentNext]_agentvars

-----------------------------------------------------------------------------

AgentTypeOK ==
  /\ state \in AgentStates
  /\ memory_used \in MemSizes \cup {0}
  /\ memory_peak \in MemSizes \cup {0}
  /\ acb_call \in [Updaters -> Calls]
  /\ reported \subseteq MemSizes \cup {0}
  /\ counters \in [Counters -> 0 .. CounterMod - 1]
  /\ running \in [Counters -> Int]
  /\ stored \in [StoredFields -> 0 .. 2]
  /\ info.used \in reported /\ info.peak \in reported

(* memory_peak is the largest use reported by a call that has returned, or *)
(* by one under way: a lost exchange never loses a maximum.                *)
PeakIsMaximum ==
  /\ memory_peak \in reported
  /\ \A m \in reported \ Pending : m <= memory_peak

(* What to_info returns was never a state of the agent as a whole, but the *)
(* use it shows is above the peak it shows only while the update of that   *)
(* use is under way.  A quota that refuses what it shows refuses its peak; *)
(* and as long as threads are counted in before they are counted out, the  *)
(* count is refused just when more are running than may.                  *)
InfoSane ==
  /\ info.used <= info.peak \/ info.used \in info.pending
  /\ CheckQuota(info.peak, 0) => CheckQuota(info.used, 0) \/ info.used \in info.pending
  /\ running["thread_count"] >= 0 =>
       (CheckQuota(0, counters["thread_count"])
          <=> (MaxThreads > 0 => running["thread_count"] <= MaxThreads))

(* The peak is the largest use reported, whatever updates interleave, and  *)
(* what an agent tells about itself is consistent but for an update that   *)
(* is under way.                                                           *)
PeakAndInfoSane == PeakIsMaximum /\ InfoSane

-----------------------------------------------------------------------------
(* Why these hold: what a call carries was reported before, a call raises  *)
(* the peak only to more than it has seen, and a counter is what ran       *)
(* modulo its width                                                        *)

Loaded ==
  /\ memory_used \in reported
  /\ \A t \in Updaters :
       /\ acb_call[t].op \in {"load_peak", "raise_peak", "to_info"} => acb_call[t].used \in reported
       /\ acb_call[t].op = "raise_peak" => acb_call[t].current_peak < acb_call[t].used

Counted ==
  /\ \A c \in Counters : counters[c] = running[c] % CounterMod
  /\ running["thread_count"] <= MaxCount

AgentInv == AgentTypeOK /\ Loaded /\ Counted /\ PeakIsMaximum /\ InfoSane

(* The remainder is the number that differs by a multiple *)
LEMMA RemainderDiffers ==
  ASSUME NEW x \in Int, NEW M \in Nat \ {0}, NEW q \in Int, NEW r \in 0 .. M - 1,
         x = M * q + r
  PROVE x % M = r
  OBVIOUS

(* A counter that wraps may be added to before or after the wrapping. *)
LEMMA AddAfterWrap ==
  ASSUME NEW x \in Int, NEW n \in Int, NEW M \in Nat \ {0}
  PROVE ((x % M) + n) % M = (x + n) % M
<1> DEFINE r == x % M
           s == (r + n) % M
           q == x \div M
           p == (r + n) \div M
<1>1. /\ r \in 0 .. M - 1
      /\ s \in 0 .. M - 1
      /\ q \in Int
      /\ p \in Int
      OBVIOUS
<1>2. x = M * q + r
  OBVIOUS
<1>3. r + n = M * p + s
  BY <1>1
<1>4. x + n = M * (q + p) + s
  BY <1>1, <1>2, <1>3
<1> HIDE DEF r, s, q, p
<1>5. x + n \in Int /\ q + p \in Int
  BY <1>1
<1>6. (x + n) % M = s
  BY <1>1, <1>4, <1>5, RemainderDiffers
<1> QED
  BY <1>6 DEF r, s

(* A small count is its own remainder. *)
LEMMA SmallRemainder ==
  ASSUME NEW x \in Nat, NEW M \in Nat, x < M
  PROVE x % M = x
  OBVIOUS

(* The two halves of InfoSane follow from the use being below the peak or  *)
(* under way, and from the count of threads being small.                   *)
LEMMA InfoSaneWhen ==
  ASSUME ConstantsOK, AgentTypeOK, Counted, reported \subseteq Nat,
         info.used <= info.peak \/ info.used \in info.pending
  PROVE InfoSane
<1>1. ASSUME CheckQuota(info.peak, 0), info.used \notin info.pending
      PROVE CheckQuota(info.used, 0)
  <2>1. info.used \in Nat /\ info.peak \in Nat /\ info.used <= info.peak
    BY <1>1 DEF AgentTypeOK
  <2> QED
    BY <1>1, <2>1 DEF CheckQuota, ConstantsOK
<1>2. ASSUME running["thread_count"] >= 0
      PROVE counters["thread_count"] = running["thread_count"]
  <2>1. /\ running["thread_count"] \in Nat
        /\ running["thread_count"] < CounterMod
        /\ counters["thread_count"] = running["thread_count"] % CounterMod
    BY <1>2 DEF Counted, Counters, Populations, AgentTypeOK, ConstantsOK
  <2> QED
    BY <2>1, SmallRemainder DEF ConstantsOK
<1>3. ASSUME running["thread_count"] >= 0
      PROVE CheckQuota(0, counters["thread_count"])
              <=> (MaxThreads > 0 => running["thread_count"] <= MaxThreads)
  BY <1>2, <1>3 DEF CheckQuota, ConstantsOK
<1> QED
  BY <1>1, <1>3 DEF InfoSane

LEMMA InitHolds == ConstantsOK /\ AgentInit => AgentInv
<1> SUFFICES ASSUME ConstantsOK, AgentInit PROVE AgentInv
  OBVIOUS
<1> USE DEF AgentInit, Idle
<1>1. Pending = {}
  BY DEF Pending
<1>2. AgentTypeOK
  BY DEF AgentTypeOK, ConstantsOK, Calls, AgentStates
<1>3. 0 % CounterMod = 0
  BY SmallRemainder DEF ConstantsOK
<1>4. Counted
  BY <1>3 DEF Counted, Counters, Populations, ConstantsOK
<1>5. Loaded
  BY DEF Loaded
<1>6. PeakIsMaximum
  BY <1>1 DEF PeakIsMaximum
<1>7. InfoSane
  BY <1>2, <1>4, InfoSaneWhen DEF ConstantsOK
<1> QED
  BY <1>2, <1>4, <1>5, <1>6, <1>7 DEF AgentInv

(* Steps that touch neither the use nor the peak nor what is told *)
memoryvars == <<memory_used, memory_peak, reported, info>>

LEMMA CallsKeepPeak ==
  ASSUME AgentInv, UNCHANGED memoryvars, Pending \subseteq Pending'
  PROVE PeakIsMaximum'
  BY DEF AgentInv, PeakIsMaximum, memoryvars

LEMMA CountsKeep ==
  ASSUME ConstantsOK, AgentInv, UNCHANGED <<memoryvars, state, stored, acb_call>>,
         NEW c \in Counters, NEW n \in Int,
         counters' = [counters EXCEPT ![c] = (@ + n) % CounterMod],
         running' = [running EXCEPT ![c] = @ + n],
         running[c] + n <= MaxCount \/ c # "thread_count"
  PROVE AgentInv'
<1> USE DEF AgentInv, memoryvars
<1>1. /\ running[c] \in Int
      /\ counters[c] = running[c] % CounterMod
      /\ CounterMod \in Nat \ {0}
  BY DEF AgentTypeOK, Counted, ConstantsOK
<1>2. counters'[c] = running'[c] % CounterMod
  BY <1>1, AddAfterWrap DEF AgentTypeOK
<1>3. (counters[c] + n) % CounterMod \in 0 .. CounterMod - 1
  BY <1>1, <1>2 DEF AgentTypeOK
<1>4. AgentTypeOK'
  BY <1>1, <1>3 DEF AgentTypeOK
<1>5. Counted'
  BY <1>1, <1>2 DEF Counted, AgentTypeOK, ConstantsOK
<1>6. Loaded'
  BY DEF Loaded
<1>7. PeakIsMaximum'
  BY CallsKeepPeak DEF Pending
<1>8. InfoSane'
  <2>1. /\ running'["thread_count"] >= 0 => counters'["thread_count"] = running'["thread_count"]
    <3>1. ASSUME running'["thread_count"] >= 0
          PROVE counters'["thread_count"] = running'["thread_count"]
      <4>1. /\ running'["thread_count"] \in Nat
            /\ running'["thread_count"] < CounterMod
            /\ counters'["thread_count"] = running'["thread_count"] % CounterMod
        BY <1>4, <1>5, <3>1 DEF AgentTypeOK, Counted, Counters, Populations, ConstantsOK
      <4> QED
        BY <4>1, SmallRemainder DEF ConstantsOK
    <3> QED
      BY <3>1
  <2> QED
    BY <2>1 DEF InfoSane, CheckQuota, ConstantsOK
<1> QED
  BY <1>4, <1>5, <1>6, <1>7, <1>8

(* A call that goes on or returns: the steps of set_state and the loads of *)
(* update_memory and to_info.  It needs that the call under way goes on    *)
(* with an amount that was reported, and that one which returns leaves the *)
(* peak no lower than its amount.                                          *)
LEMMA CallGoesOn ==
  ASSUME ConstantsOK, AgentInv, NEW t \in Updaters, NEW c \in Calls, SetCall(t, c),
         UNCHANGED <<memoryvars, countvars>>, state' \in AgentStates,
         c.op \in {"load_peak", "raise_peak", "to_info"} => c.used \in reported,
         c.op = "raise_peak" => c.current_peak < c.used,
         acb_call[t].op \in {"load_peak", "raise_peak"}
           => \/ c.op \in {"load_peak", "raise_peak"} /\ c.used = acb_call[t].used
              \/ acb_call[t].used <= memory_peak
  PROVE AgentInv'
<1> USE DEF AgentInv, memoryvars, countvars, SetCall
<1>1. AgentTypeOK'
  BY DEF AgentTypeOK
<1>2. Loaded'
  BY DEF Loaded, AgentTypeOK
<1>3. Counted'
  BY DEF Counted
<1>4. PeakIsMaximum'
  <2>1. memory_peak' \in reported'
    BY DEF PeakIsMaximum
  <2>2. ASSUME NEW m \in reported, m \notin Pending', ~(m <= memory_peak)
        PROVE FALSE
    <3>1. m \in Pending
      BY <2>2 DEF PeakIsMaximum
    <3>2. PICK u \in Updaters : acb_call[u].op \in {"load_peak", "raise_peak"} /\ acb_call[u].used = m
      BY <3>1 DEF Pending
    <3>3. CASE u # t
      <4>1. acb_call'[u] = acb_call[u]
        BY <3>3 DEF AgentTypeOK
      <4> QED
        BY <2>2, <3>2, <4>1 DEF Pending
    <3>4. CASE u = t
      <4>1. acb_call'[t] = c
        BY DEF AgentTypeOK
      <4>2. c.op \in {"load_peak", "raise_peak"} /\ c.used = m
        BY <2>2, <3>2, <3>4
      <4> QED
        BY <2>2, <4>1, <4>2 DEF Pending
    <3> QED
      BY <3>3, <3>4
  <2> QED
    BY <2>1, <2>2 DEF PeakIsMaximum
<1>5. InfoSane'
  BY DEF InfoSane, CheckQuota
<1> QED
  BY <1>1, <1>2, <1>3, <1>4, <1>5

LEMMA NextKeeps == ConstantsOK /\ AgentInv /\ [AgentNext]_agentvars => AgentInv'
<1> SUFFICES ASSUME ConstantsOK, AgentInv, [AgentNext]_agentvars PROVE AgentInv'
  OBVIOUS
<1>0. AgentTypeOK /\ Loaded /\ Counted /\ PeakIsMaximum /\ InfoSane
  BY DEF AgentInv
<1>idle. Idle \in Calls /\ Idle.op = "idle"
  BY DEF Idle, Calls
<1>1. ASSUME NEW t \in Updaters, NEW s \in AgentStates, SetStateLoads(t, s)
      PROVE AgentInv'
  <2> DEFINE c == [op |-> "set_state", new_state |-> s]
  <2>1. c \in Calls /\ c.op = "set_state" /\ acb_call[t].op = "idle"
    BY <1>1, <1>idle DEF Calls, SetStateLoads
  <2>2. SetCall(t, c) /\ UNCHANGED <<memoryvars, countvars>> /\ state' \in AgentStates
    BY <1>0, <1>1 DEF SetStateLoads, memoryvars, AgentTypeOK
  <2> HIDE DEF c
  <2> QED
    BY <2>1, <2>2, CallGoesOn
<1>2. ASSUME NEW t \in Updaters, SetStateStores(t)
      PROVE AgentInv'
  <2>1. SetCall(t, Idle) /\ UNCHANGED <<memoryvars, countvars>> /\ acb_call[t].op = "set_state"
    BY <1>2 DEF SetStateStores, memoryvars
  <2>2. state' \in AgentStates
    BY <1>0, <1>2 DEF SetStateStores, AgentTypeOK, Calls, Idle
  <2> QED
    BY <1>idle, <2>1, <2>2, CallGoesOn
<1>3. ASSUME NEW t \in Updaters, NEW used \in MemSizes, UpdateMemory(t, used)
      PROVE AgentInv'
  <2> USE <1>3 DEF UpdateMemory, SetCall
  <2> DEFINE c == [op |-> "load_peak", used |-> used]
  <2>1. c \in Calls /\ acb_call' = [acb_call EXCEPT ![t] = c] /\ acb_call[t].op = "idle"
    BY <1>idle DEF Calls
  <2>2. AgentTypeOK'
    BY <1>0, <2>1 DEF AgentTypeOK, countvars
  <2>3. Loaded'
    BY <1>0, <2>1 DEF AgentTypeOK, Loaded
  <2>4. Counted'
    BY <1>0 DEF Counted, countvars
  <2>5. Pending' = Pending \cup {used}
    <3>1. \A u \in Updaters : u # t => acb_call'[u] = acb_call[u]
      BY <1>0, <2>1 DEF AgentTypeOK
    <3>2. acb_call'[t].op = "load_peak" /\ acb_call'[t].used = used
      BY <1>0, <2>1 DEF AgentTypeOK
    <3> HIDE DEF UpdateMemory
    <3> QED
      BY <2>1, <3>1, <3>2 DEF Pending
  <2>6. PeakIsMaximum'
    BY <1>0, <2>5 DEF PeakIsMaximum
  <2>7. InfoSane'
    BY <1>0 DEF InfoSane, CheckQuota, countvars
  <2> QED
    BY <2>2, <2>3, <2>4, <2>6, <2>7 DEF AgentInv
<1>4. ASSUME NEW t \in Updaters, LoadPeak(t) \/ RaiseFails(t)
      PROVE AgentInv'
  <2> DEFINE used == acb_call[t].used
             c == IF used <= memory_peak THEN Idle
                  ELSE [op |-> "raise_peak", used |-> used, current_peak |-> memory_peak]
  <2>1. acb_call[t].op \in {"load_peak", "raise_peak"}
    BY <1>4 DEF LoadPeak, RaiseFails
  <2>2. used \in MemSizes /\ used \in reported /\ used \in Nat
    <3>1. used \in MemSizes
      <4>1. acb_call[t] \in Calls
        BY <1>0 DEF AgentTypeOK
      <4> QED
        BY <2>1, <4>1 DEF Calls, Idle
    <3>2. used \in reported
      BY <1>0, <2>1 DEF Loaded
    <3> QED
      BY <3>1, <3>2 DEF ConstantsOK
  <2>3. memory_peak \in MemSizes \cup {0} /\ memory_peak \in Nat
    BY <1>0 DEF AgentTypeOK, ConstantsOK
  <2>4. SetCall(t, c) /\ UNCHANGED <<memoryvars, countvars>> /\ state' = state
    BY <1>4 DEF LoadPeak, RaiseFails, Retry, memoryvars
  <2>5. state' \in AgentStates
    BY <1>0, <2>4 DEF AgentTypeOK
  <2>6. CASE used <= memory_peak
    <3>1. c = Idle
      BY <2>6
    <3> HIDE DEF c
    <3> QED
      BY <1>idle, <2>4, <2>5, <2>6, <3>1, CallGoesOn
  <2>7. CASE ~(used <= memory_peak)
    <3>1. c = [op |-> "raise_peak", used |-> used, current_peak |-> memory_peak]
      BY <2>7
    <3>2. c \in Calls /\ c.op = "raise_peak" /\ c.used = used /\ c.current_peak = memory_peak
      BY <2>2, <2>3, <3>1 DEF Calls
    <3>3. memory_peak < used
      BY <2>2, <2>3, <2>7
    <3> HIDE DEF c
    <3> QED
      BY <2>1, <2>2, <2>4, <2>5, <3>2, <3>3, CallGoesOn
  <2> QED
    BY <2>6, <2>7
<1>5. ASSUME NEW t \in Updaters, RaisePeak(t)
      PROVE AgentInv'
  <2> DEFINE used == acb_call[t].used
  <2>1. /\ acb_call[t].op = "raise_peak" /\ acb_call[t].current_peak = memory_peak
        /\ memory_peak' = used
        /\ acb_call' = [acb_call EXCEPT ![t] = Idle]
        /\ UNCHANGED <<state, memory_used, reported, countvars, info>>
    BY <1>5 DEF RaisePeak, SetCall
  <2>2. used \in MemSizes /\ used \in reported /\ memory_peak < used
    BY <1>0, <2>1 DEF AgentTypeOK, Loaded, Calls, Idle
  <2>3. AgentTypeOK'
    BY <1>0, <1>idle, <2>1, <2>2 DEF AgentTypeOK, countvars
  <2>4. Loaded'
    BY <1>0, <1>idle, <2>1 DEF AgentTypeOK, Loaded
  <2>5. Counted'
    BY <1>0, <2>1 DEF Counted, countvars
  <2>6. Pending \subseteq Pending' \cup {used}
    <3>1. \A u \in Updaters : u # t => acb_call'[u] = acb_call[u]
      BY <1>0, <2>1 DEF AgentTypeOK
    <3> QED
      BY <2>1, <3>1 DEF Pending
  <2>7. PeakIsMaximum'
    <3>1. \A m \in reported : m \in Nat
      BY <1>0 DEF AgentTypeOK, ConstantsOK
    <3>2. ASSUME NEW m \in reported, m \notin Pending'
          PROVE m <= memory_peak'
      <4>1. CASE m = used
        BY <2>1, <3>1, <4>1
      <4>2. CASE m # used
        <5>1. m <= memory_peak
          BY <1>0, <2>6, <3>2, <4>2 DEF PeakIsMaximum
        <5>2. memory_peak \in Nat /\ used \in Nat
          BY <1>0, <2>2, <3>1 DEF PeakIsMaximum
        <5> QED
          BY <2>1, <2>2, <3>1, <5>1, <5>2
      <4> QED
        BY <4>1, <4>2
    <3> QED
      BY <2>1, <2>2, <3>2 DEF PeakIsMaximum
  <2>8. InfoSane'
    BY <1>0, <2>1 DEF InfoSane, CheckQuota, countvars
  <2> QED
    BY <2>3, <2>4, <2>5, <2>7, <2>8 DEF AgentInv
<1>6. ASSUME NEW t \in Updaters, InfoLoadsUsed(t)
      PROVE AgentInv'
  <2> DEFINE c == [op |-> "to_info", used |-> memory_used]
  <2>1. c \in Calls /\ c.op = "to_info" /\ c.used \in reported /\ acb_call[t].op = "idle"
    BY <1>0, <1>6, <1>idle DEF Calls, InfoLoadsUsed, AgentTypeOK, Loaded
  <2>2. SetCall(t, c) /\ UNCHANGED <<memoryvars, countvars>> /\ state' \in AgentStates
    BY <1>0, <1>6 DEF InfoLoadsUsed, memoryvars, AgentTypeOK
  <2> HIDE DEF c
  <2> QED
    BY <2>1, <2>2, CallGoesOn
<1>7. ASSUME NEW t \in Updaters, InfoReturns(t)
      PROVE AgentInv'
  <2>1. /\ acb_call[t].op = "to_info"
        /\ info' = [used |-> acb_call[t].used, peak |-> memory_peak, counts |-> counters,
                    times |-> stored, pending |-> Pending]
        /\ acb_call' = [acb_call EXCEPT ![t] = Idle]
        /\ UNCHANGED <<state, memory_used, memory_peak, reported, countvars>>
    BY <1>7 DEF InfoReturns, SetCall
  <2>2. acb_call[t].used \in reported /\ memory_peak \in reported
    BY <1>0, <2>1 DEF Loaded, PeakIsMaximum
  <2>3. AgentTypeOK'
    BY <1>0, <1>idle, <2>1, <2>2 DEF AgentTypeOK, countvars
  <2>4. Loaded'
    BY <1>0, <1>idle, <2>1 DEF AgentTypeOK, Loaded
  <2>5. Counted'
    BY <1>0, <2>1 DEF Counted, countvars
  <2>6. Pending' = Pending
    <3>1. \A u \in Updaters : u # t => acb_call'[u] = acb_call[u]
      BY <1>0, <2>1 DEF AgentTypeOK
    <3>2. acb_call'[t].op = "idle"
      BY <1>0, <1>idle, <2>1 DEF AgentTypeOK
    <3> QED
      BY <2>1, <3>1, <3>2 DEF Pending
  <2>7. PeakIsMaximum'
    BY <1>0, <2>1, <2>6 DEF PeakIsMaximum
  <2>8. info'.used <= info'.peak \/ info'.used \in info'.pending
    BY <1>0, <2>1, <2>2 DEF PeakIsMaximum
  <2>9. reported' \subseteq Nat
    BY <2>3 DEF AgentTypeOK, ConstantsOK
  <2>10. InfoSane'
    <3>1. ASSUME running["thread_count"] >= 0
          PROVE CheckQuota(0, counters["thread_count"])
                  <=> (MaxThreads > 0 => running["thread_count"] <= MaxThreads)
      BY <1>0, <3>1 DEF InfoSane
    <3>2. ASSUME CheckQuota(info'.peak, 0), info'.used \notin info'.pending
          PROVE CheckQuota(info'.used, 0)
      <4>1. /\ info'.used \in Nat
            /\ info'.peak \in Nat
            /\ info'.used <= info'.peak
        BY <2>3, <2>8, <2>9, <3>2 DEF AgentTypeOK
      <4> QED
        BY <3>2, <4>1 DEF CheckQuota, ConstantsOK
    <3>3. (counters' = counters) /\ running' = running
      BY <2>1 DEF countvars
    <3> QED
      BY <2>8, <3>1, <3>2, <3>3 DEF InfoSane, CheckQuota
  <2> QED
    BY <2>3, <2>4, <2>5, <2>7, <2>10 DEF AgentInv
<1>8. ASSUME NEW c \in Counters, NEW n \in {1, 2}, running[c] < MaxCount, Add(c, n),
             n = 1 \/ c # "thread_count"
      PROVE AgentInv'
  <2>1. running[c] \in Int /\ MaxCount \in Nat
    BY <1>0 DEF AgentTypeOK, ConstantsOK
  <2>2. running[c] + n <= MaxCount \/ c # "thread_count"
    BY <1>8, <2>1
  <2>3. /\ UNCHANGED <<memoryvars, state, stored, acb_call>>
        /\ counters' = [counters EXCEPT ![c] = (@ + n) % CounterMod]
        /\ running' = [running EXCEPT ![c] = @ + n]
    BY <1>8 DEF Add, memoryvars
  <2>4. n \in Int
    OBVIOUS
  <2> QED
    BY <2>2, <2>3, <2>4, CountsKeep
<1>9. ASSUME NEW c \in Populations, Subtract(c)
      PROVE AgentInv'
  <2>0. c \in Counters
    BY DEF Counters
  <2>1. running[c] \in Int /\ counters[c] \in Int
    BY <1>0, <2>0 DEF AgentTypeOK, ConstantsOK
  <2>2. running[c] + (-1) <= MaxCount \/ c # "thread_count"
    BY <1>0, <2>1 DEF Counted, ConstantsOK
  <2>3. /\ UNCHANGED <<memoryvars, state, stored, acb_call>>
        /\ counters' = [counters EXCEPT ![c] = (@ + (-1)) % CounterMod]
        /\ running' = [running EXCEPT ![c] = @ + (-1)]
    BY <1>9, <2>1 DEF Subtract, memoryvars
  <2>4. -1 \in Int
    OBVIOUS
  <2> QED
    BY <2>0, <2>2, <2>3, <2>4, CountsKeep
<1>10. ASSUME NEW field \in StoredFields, NEW value \in {1, 2}, Store(field, value)
       PROVE AgentInv'
  <2> USE <1>10 DEF Store
  <2>1. AgentTypeOK'
    BY <1>0 DEF AgentTypeOK
  <2>2. Loaded' /\ Counted'
    BY <1>0 DEF Loaded, Counted
  <2>3. PeakIsMaximum'
    BY <1>0 DEF PeakIsMaximum, Pending
  <2>4. InfoSane'
    BY <1>0 DEF InfoSane, CheckQuota
  <2> QED
    BY <2>1, <2>2, <2>3, <2>4 DEF AgentInv
<1>11. CASE UNCHANGED agentvars
  <2> USE <1>11 DEF agentvars
  <2>1. AgentTypeOK' /\ Loaded' /\ Counted'
    BY <1>0 DEF AgentTypeOK, Loaded, Counted
  <2>2. PeakIsMaximum' /\ InfoSane'
    BY <1>0 DEF PeakIsMaximum, Pending, InfoSane, CheckQuota
  <2> QED
    BY <2>1, <2>2 DEF AgentInv
<1>12. CASE \E c \in Populations : running[c] < MaxCount /\ Add(c, 1)
  BY <1>8, <1>12 DEF Counters
<1>13. CASE \E c \in MessageCounts : running[c] < MaxCount /\ IncMsgCount(c)
  BY <1>8, <1>13 DEF Counters, IncMsgCount
<1>14. CASE \E ns \in {1, 2} : running["cpu_time_ns"] < MaxCount /\ AddCpuTime(ns)
  BY <1>8, <1>14 DEF Counters, AddCpuTime
<1>15. CASE \E cpu \in {1, 2} : SetCurrentCpu(cpu)
  BY <1>10, <1>15 DEF StoredFields, SetCurrentCpu
<1> QED
  BY <1>1, <1>2, <1>3, <1>4, <1>5, <1>6, <1>7, <1>9, <1>10, <1>11, <1>12, <1>13, <1>14, <1>15
     DEF AgentNext

(* For any number of callers the peak is the largest use reported, and     *)
(* what to_info tells is consistent: no lost exchange loses a maximum.     *)
THEOREM PeakAndInfoHold == AgentSpec => []PeakAndInfoSane
<1>1. AgentInit => AgentInv
  BY AgentAssumption, InitHolds
<1>2. AgentInv /\ [AgentNext]_agentvars => AgentInv'
  BY AgentAssumption, NextKeeps
<1>3. AgentInv => PeakAndInfoSane
  BY DEF AgentInv, PeakAndInfoSane
<1> QED
  BY <1>1, <1>2, <1>3, PTL DEF AgentSpec

=============================================================================

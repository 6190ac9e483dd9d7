---------------------------- MODULE ClusterProofs ----------------------------
(***************************************************************************)
(* For any nodes, elements and time stamps, and however messages are lost, *)
(* delayed, repeated and reordered: replicas that include the same updates *)
(* agree, and their clocks tell which one includes more.  And for any      *)
(* members, timeouts and heartbeats, the members found silent are those    *)
(* that were; however threads interleave their calls, the two arrays of    *)
(* the table of sockets agree; and the counters, the queue and the tables  *)
(* of the soft bus say the same.                                           *)
(***************************************************************************)
EXTENDS Cluster, Network, SoftBus, FiniteSetTheorems, SequenceTheorems, NaturalsInduction,
        WellFoundedInduction, TLAPS

-----------------------------------------------------------------------------
(* Snapshots                                                               *)

(* Numbers of one node's updates include each other: of two snapshots the  *)
(* one with the larger entry in its clock has the other's updates of that  *)
(* node (VectorClock::merge, compare).                                     *)
LEMMA Prefix ==
  ASSUME NEW r, NEW s, NEW U, NEW V, Holds(r, U), Holds(s, V),
         Unambiguous(U \cup V),
         NEW n \in Node, s.clock[n] <= r.clock[n]
  PROVE  From(V, n) \subseteq From(U, n)
<1> SUFFICES ASSUME NEW v \in V, v.node = n PROVE v \in U
  BY DEF From
<1>1. v.number \in Nat \ {0} /\ v.number <= s.clock[n]
  BY DEF Holds, UpTo, Updates
<1>2. r.clock[n] \in Nat /\ s.clock[n] \in Nat
  BY DEF Holds, Replicas, Counts
<1>3. v.number \in 1 .. r.clock[n]
  BY <1>1, <1>2
<1>4. PICK u \in From(U, n) : u.number = v.number
  BY <1>3 DEF Holds, UpTo
<1> QED
  BY <1>4 DEF From, Unambiguous

(* The other way round: a snapshot that has all updates of the other has a *)
(* clock that is not behind.                                               *)
LEMMA PrefixClock ==
  ASSUME NEW r, NEW s, NEW U, NEW V, Holds(r, U), Holds(s, V),
         NEW n \in Node, From(V, n) \subseteq From(U, n)
  PROVE  s.clock[n] <= r.clock[n]
<1>1. r.clock[n] \in Nat /\ s.clock[n] \in Nat
  BY DEF Holds, Replicas, Counts
<1>2. CASE s.clock[n] = 0
  BY <1>1, <1>2
<1>3. CASE s.clock[n] # 0
  <2>1. s.clock[n] \in 1 .. s.clock[n]
    BY <1>1, <1>3
  <2>2. PICK v \in From(V, n) : v.number = s.clock[n]
    BY <2>1 DEF Holds, UpTo
  <2> QED
    BY <2>2 DEF From, Holds, UpTo
<1> QED
  BY <1>2, <1>3

(* What a write is. *)
LEMMA WriteTypes ==
  ASSUME NEW U, U \subseteq Updates, NEW u \in Writes(U)
  PROVE  /\ u \in U /\ u.op[2] \in Elements /\ u.op[3] \in Timestamps /\ u.op[3] \in Nat
         /\ u.op[3] > 0 /\ u.node \in Node /\ u.node \in Nat /\ u.number \in Nat \ {0}
<1>1. u \in U /\ u.op[1] = "write" /\ u.op[3] > 0 /\ u \in Updates
  BY DEF Writes
<1>2. u.node \in Node /\ u.number \in Nat \ {0}
  BY <1>1 DEF Updates
<1>3. u.op \in {"write"} \X Elements \X Timestamps
  BY <1>1 DEF Updates
<1> QED
  BY <1>1, <1>2, <1>3, ClusterAssumption DEF ConstantsOK

(* Last-writer-wins is an order of the writes (CrdtRegister::set, merge). *)
LEMMA BeatsTransitive ==
  ASSUME NEW U, U \subseteq Updates, NEW u \in Writes(U), NEW v \in Writes(U), NEW w \in Writes(U),
         Beats(u, v), Beats(v, w)
  PROVE  Beats(u, w)
<1>1. \A x \in Writes(U) : x.op[3] \in Nat /\ x.node \in Nat /\ x.number \in Nat
  BY WriteTypes
<1> QED
  BY <1>1 DEF Beats

LEMMA BeatsIrreflexive ==
  ASSUME NEW U, U \subseteq Updates, NEW u \in Writes(U), NEW v \in Writes(U), Beats(u, v)
  PROVE  ~Beats(v, u)
<1>1. \A x \in Writes(U) : x.op[3] \in Nat /\ x.node \in Nat /\ x.number \in Nat
  BY WriteTypes
<1> QED
  BY <1>1 DEF Beats

-----------------------------------------------------------------------------
(* Merging                                                                 *)

(* What is merged of the clocks: the larger entry of each node, which is   *)
(* that of the snapshot that includes the other's updates of the node.     *)
LEMMA MergeClock ==
  ASSUME NEW r, NEW s, NEW U, NEW V, Holds(r, U), Holds(s, V)
  PROVE  UpTo(MergedCounts(r.clock, s.clock), U \cup V)
<1> DEFINE c == MergedCounts(r.clock, s.clock)
<1>1. \A n \in Node : r.clock[n] \in Nat /\ s.clock[n] \in Nat
  BY DEF Holds, Replicas, Counts
<1>2. \A n \in Node : /\ r.clock[n] <= c[n] /\ s.clock[n] <= c[n]
                      /\ c[n] = r.clock[n] \/ c[n] = s.clock[n]
  BY <1>1 DEF MergedCounts, Larger
<1>3. \A u \in U \cup V : u.node \in Node /\ u.number \in Nat
  BY DEF Holds, Updates
<1>4. \A u \in U \cup V : u.number <= c[u.node]
  <2> SUFFICES ASSUME NEW u \in U \cup V PROVE u.number <= c[u.node]
    OBVIOUS
  <2>1. u.number <= r.clock[u.node] \/ u.number <= s.clock[u.node]
    BY DEF Holds, UpTo
  <2>2. c[u.node] \in Nat
    BY <1>1, <1>2, <1>3
  <2> HIDE DEF c
  <2> QED
    BY <1>1, <1>2, <1>3, <2>1, <2>2
<1>5. ASSUME NEW n \in Node, NEW i \in 1 .. c[n]
      PROVE  \E u \in From(U \cup V, n) : u.number = i
  <2>1. i \in 1 .. r.clock[n] \/ i \in 1 .. s.clock[n]
    <3> HIDE DEF c
    <3> QED BY <1>2
  <2> QED
    BY <2>1 DEF Holds, UpTo, From
<1> QED
  BY <1>4, <1>5 DEF UpTo

(* The larger of two counts of a node is the count of both together, for   *)
(* the updates behind the smaller are among those behind the larger        *)
(* (GCounter::merge): nothing is counted twice.                            *)
LEMMA MergeCounter ==
  ASSUME NEW r, NEW s, NEW U, NEW V, Holds(r, U), Holds(s, V),
         Unambiguous(U \cup V), NEW n \in Node
  PROVE  Larger(r.counter[n], s.counter[n]) = Cardinality(From(Increments(U \cup V), n))
<1> DEFINE I(W) == From(Increments(W), n)
<1>1. I(U) \subseteq I(V) \/ I(V) \subseteq I(U)
  <2>1. r.clock[n] \in Nat /\ s.clock[n] \in Nat
    BY DEF Holds, Replicas, Counts
  <2>2. From(U, n) \subseteq From(V, n) \/ From(V, n) \subseteq From(U, n)
    <3>1. CASE s.clock[n] <= r.clock[n]
      BY <3>1, Prefix
    <3>2. CASE r.clock[n] <= s.clock[n]
      <4>1. Unambiguous(V \cup U)
        BY DEF Unambiguous
      <4> QED
        BY <3>2, <4>1, Prefix
    <3> QED
      BY <2>1, <3>1, <3>2
  <2> QED
    BY <2>2 DEF From, Increments
<1>2. I(U \cup V) = I(U) \cup I(V)
  BY DEF From, Increments
<1>3. IsFiniteSet(I(U)) /\ IsFiniteSet(I(V))
  <2>1. IsFiniteSet(U) /\ IsFiniteSet(V) /\ I(U) \in SUBSET U /\ I(V) \in SUBSET V
    BY DEF Holds, From, Increments
  <2> QED
    BY <2>1, FS_Subset
<1>4. r.counter[n] = Cardinality(I(U)) /\ s.counter[n] = Cardinality(I(V))
  BY DEF Holds
<1>5. r.counter[n] \in Nat /\ s.counter[n] \in Nat
  BY DEF Holds, Replicas, Counts
<1> HIDE DEF I
<1>6. CASE I(U) \subseteq I(V)
  <2>1. Cardinality(I(U)) <= Cardinality(I(V))
    BY <1>3, <1>6, FS_Subset
  <2>2. I(U \cup V) = I(V)
    BY <1>2, <1>6
  <2>3. Larger(r.counter[n], s.counter[n]) = Cardinality(I(U \cup V))
    BY <1>4, <1>5, <2>1, <2>2 DEF Larger
  <2> QED
    BY <2>3 DEF I
<1>7. CASE I(V) \subseteq I(U)
  <2>1. Cardinality(I(V)) <= Cardinality(I(U))
    BY <1>3, <1>7, FS_Subset
  <2>2. I(U \cup V) = I(U)
    BY <1>2, <1>7
  <2>3. Larger(r.counter[n], s.counter[n]) = Cardinality(I(U \cup V))
    BY <1>4, <1>5, <2>1, <2>2 DEF Larger
  <2> QED
    BY <2>3 DEF I
<1> QED
  BY <1>1, <1>6, <1>7

(* Tombstones win over items of either side (ORSet::merge). *)
LEMMA MergeSets ==
  ASSUME NEW s, NEW t, NEW U, NEW V,
         s = [items |-> Items(U), tombstones |-> Removals(U)],
         t = [items |-> Items(V), tombstones |-> Removals(V)]
  PROVE  MergedSets(s, t) = [items |-> Items(U \cup V), tombstones |-> Removals(U \cup V)]
<1>1. Removals(U \cup V) = Removals(U) \cup Removals(V)
  BY DEF Removals
<1>2. Items(U \cup V) = (Items(U) \cup Items(V)) \ Removals(U \cup V)
  BY DEF Items, Removals
<1> QED
  BY <1>1, <1>2 DEF MergedSets

(* The last write of both is the last of one of them (CrdtRegister::merge).*)
(* Two different writes cannot have the same stamp and node and different  *)
(* numbers in the wrong order: the snapshot with the larger number         *)
(* includes the other write, and kept the first.                           *)
LEMMA MergeRegister ==
  ASSUME NEW r, NEW s, NEW U, NEW V, Holds(r, U), Holds(s, V), Unambiguous(U \cup V)
  PROVE  HoldsWrites(MergedRegisters(r.register, s.register), U \cup V)
<1> DEFINE a == r.register
           b == s.register
           W == U \cup V
<1>0. /\ a \in Registers /\ b \in Registers
      /\ U \subseteq Updates /\ V \subseteq Updates /\ W \subseteq Updates
      /\ HoldsWrites(a, U) /\ HoldsWrites(b, V)
  BY DEF Holds, Replicas
<1>1. Writes(W) = Writes(U) \cup Writes(V)
  BY DEF Writes
<1>2. a.timestamp \in Nat /\ b.timestamp \in Nat /\ a.node \in Nat /\ b.node \in Nat
  BY <1>0, ClusterAssumption DEF Registers, ConstantsOK
<1> DEFINE Stamped(u) == [value |-> u.op[2], timestamp |-> u.op[3], node |-> u.node]
<1>3. CASE Writes(V) = {}
  <2>1. b.value = NoValue /\ b.timestamp = 0
    BY <1>0, <1>3 DEF HoldsWrites
  <2>2. CASE Writes(U) = {}
    <3>1. a.value = NoValue /\ a.timestamp = 0
      BY <1>0, <2>2 DEF HoldsWrites
    <3> QED
      BY <1>1, <1>3, <2>1, <2>2, <3>1 DEF HoldsWrites, MergedRegisters
  <2>3. CASE Writes(U) # {}
    <3>1. PICK u \in Writes(U) : IsLast(u, U) /\ a = Stamped(u)
      BY <1>0, <2>3 DEF HoldsWrites
    <3>2. a.timestamp > 0
      BY <1>0, <3>1, WriteTypes
    <3>3. MergedRegisters(a, b) = a
      BY <1>2, <2>1, <3>2 DEF MergedRegisters, Wins
    <3>4. IsLast(u, W)
      BY <1>1, <1>3, <3>1 DEF IsLast
    <3> QED
      BY <1>1, <3>1, <3>3, <3>4 DEF HoldsWrites
  <2> QED
    BY <2>2, <2>3
<1>4. CASE Writes(V) # {}
  <2>1. PICK v \in Writes(V) : IsLast(v, V) /\ b = Stamped(v)
    BY <1>0, <1>4 DEF HoldsWrites
  <2>2. /\ v.op[3] \in Nat /\ v.op[3] > 0 /\ v.node \in Node /\ v.node \in Nat
        /\ v.number \in Nat \ {0} /\ v \in V
    BY <1>0, WriteTypes
  <2>3. CASE Writes(U) = {}
    <3>1. a.timestamp = 0
      BY <1>0, <2>3 DEF HoldsWrites
    <3>2. MergedRegisters(a, b) = b
      BY <2>1, <2>2, <3>1 DEF MergedRegisters, Wins
    <3>3. IsLast(v, W)
      BY <1>1, <2>1, <2>3 DEF IsLast
    <3> QED
      BY <1>1, <2>1, <3>2, <3>3 DEF HoldsWrites
  <2>4. CASE Writes(U) # {}
    <3>1. PICK u \in Writes(U) : IsLast(u, U) /\ a = Stamped(u)
      BY <1>0, <2>4 DEF HoldsWrites
    <3>2. /\ u.op[3] \in Nat /\ u.op[3] > 0 /\ u.node \in Node /\ u.node \in Nat
          /\ u.number \in Nat \ {0} /\ u \in U
      BY <1>0, WriteTypes
    <3>3. u \in Writes(W) /\ v \in Writes(W)
      BY <1>1
    <3>4. CASE Wins(b.timestamp, b.node, a)
      <4>1. Beats(v, u)
        BY <2>1, <2>2, <3>1, <3>2, <3>4 DEF Wins, Beats
      <4>2. \A w \in Writes(U) : Beats(v, w)
        <5> SUFFICES ASSUME NEW w \in Writes(U), w # u PROVE Beats(v, w)
          BY <4>1
        <5>1. Beats(u, w)
          BY <3>1 DEF IsLast
        <5> QED
          BY <1>0, <1>1, <3>3, <4>1, <5>1, BeatsTransitive
      <4>3. IsLast(v, W)
        BY <1>1, <2>1, <4>2 DEF IsLast
      <4>4. MergedRegisters(a, b) = b
        BY <3>4 DEF MergedRegisters
      <4> QED
        BY <2>1, <3>3, <4>3, <4>4 DEF HoldsWrites
    <3>5. CASE ~Wins(b.timestamp, b.node, a)
      <4>1. u = v \/ Beats(u, v)
        <5>1. \/ u.op[3] > v.op[3]
              \/ u.op[3] = v.op[3] /\ u.node > v.node
              \/ u.op[3] = v.op[3] /\ u.node = v.node
          BY <2>1, <2>2, <3>1, <3>2, <3>5 DEF Wins
        <5>2. CASE u.op[3] = v.op[3] /\ u.node = v.node /\ v.number < u.number
          <6>1. u.number <= r.clock[u.node] /\ r.clock[u.node] \in Nat
            BY <3>2 DEF Holds, UpTo, Replicas, Counts
          <6>2. v.number \in 1 .. r.clock[u.node]
            BY <2>2, <3>2, <5>2, <6>1
          <6>3. PICK x \in From(U, u.node) : x.number = v.number
            BY <3>2, <6>2 DEF Holds, UpTo
          <6>4. x = v
            BY <2>2, <5>2, <6>3 DEF From, Unambiguous
          <6>5. v \in Writes(U) \ {u}
            BY <3>2, <5>2, <6>3, <6>4 DEF From, Writes
          <6>6. Beats(u, v)
            BY <3>1, <6>5 DEF IsLast
          <6> QED
            BY <6>6
        <5>3. CASE u.op[3] = v.op[3] /\ u.node = v.node /\ u.number = v.number
          BY <2>2, <3>2, <5>3 DEF Unambiguous
        <5> QED
          BY <2>2, <3>2, <5>1, <5>2, <5>3 DEF Beats
      <4>2. \A w \in Writes(V) : w = u \/ Beats(u, w)
        <5> SUFFICES ASSUME NEW w \in Writes(V) PROVE w = u \/ Beats(u, w)
          OBVIOUS
        <5>1. w = v \/ Beats(v, w)
          BY <2>1 DEF IsLast
        <5> QED
          BY <1>0, <1>1, <3>3, <4>1, <5>1, BeatsTransitive
      <4>3. IsLast(u, W)
        BY <1>1, <3>1, <4>2 DEF IsLast
      <4>4. MergedRegisters(a, b) = a
        BY <3>5 DEF MergedRegisters
      <4> QED
        BY <3>1, <3>3, <4>3, <4>4 DEF HoldsWrites
    <3> QED
      BY <3>4, <3>5
  <2> QED
    BY <2>3, <2>4
<1> QED
  BY <1>3, <1>4

(* A merge of two snapshots holds what their updates together amount to    *)
(* (the merges of crdt.rs), in whatever order they are taken and whatever  *)
(* they have in common.                                                    *)
LEMMA MergeHolds ==
  ASSUME NEW r, NEW s, NEW U, NEW V, Holds(r, U), Holds(s, V), Unambiguous(U \cup V)
  PROVE  Holds(Merged(r, s), U \cup V)
<1> DEFINE q == Merged(r, s)
<1>1. U \cup V \subseteq Updates /\ IsFiniteSet(U \cup V)
  BY FS_Union DEF Holds
<1>2. q.clock \in Counts /\ q.counter \in Counts
  BY DEF Merged, MergedCounts, Larger, Counts, Holds, Replicas
<1>3. q.set \in CrdtSets
  BY DEF Merged, MergedSets, CrdtSets, Holds, Replicas
<1>4. q.register \in Registers
  BY DEF Merged, MergedRegisters, Holds, Replicas
<1>5. q \in Replicas
  BY <1>2, <1>3, <1>4 DEF Merged, Replicas
<1>6. UpTo(q.clock, U \cup V)
  BY MergeClock DEF Merged
<1>7. \A n \in Node : q.counter[n] = Cardinality(From(Increments(U \cup V), n))
  <2>1. \A n \in Node : q.counter[n] = Larger(r.counter[n], s.counter[n])
    BY DEF Merged, MergedCounts
  <2> QED
    BY <2>1, MergeCounter
<1>8. q.set = [items |-> Items(U \cup V), tombstones |-> Removals(U \cup V)]
  BY MergeSets DEF Holds, Merged
<1>9. HoldsWrites(q.register, U \cup V)
  BY MergeRegister DEF Merged
<1> QED
  BY <1>1, <1>5, <1>6, <1>7, <1>8, <1>9 DEF Holds

-----------------------------------------------------------------------------
(* Updates                                                                 *)

Numbered(r, n, op) == [node |-> n, number |-> Incremented(r.clock, n)[n], op |-> op]

(* An update gets the number after the last of its node, and the clock     *)
(* counts it (VectorClock::increment).                                     *)
LEMMA UpdateClock ==
  ASSUME NEW r, NEW U, Holds(r, U), NEW n \in Node, NEW op
  PROVE  /\ Incremented(r.clock, n) \in Counts
         /\ Numbered(r, n, op).number \in Nat \ {0}
         /\ UpTo(Incremented(r.clock, n), U \cup {Numbered(r, n, op)})
<1> DEFINE c == Incremented(r.clock, n)
           w == Numbered(r, n, op)
<1>1. r.clock \in [Node -> Nat]
  BY DEF Holds, Replicas, Counts
<1>2. /\ c \in [Node -> Nat] /\ c[n] = r.clock[n] + 1
      /\ \A m \in Node : m # n => c[m] = r.clock[m]
  BY <1>1 DEF Incremented
<1>3. w.node = n /\ w.number = c[n]
  BY DEF Numbered
<1>4. c \in Counts /\ w.number \in Nat \ {0}
  BY <1>1, <1>2, <1>3 DEF Counts
<1> HIDE DEF c, w
<1>5. ASSUME NEW u \in U \cup {w} PROVE u.number <= c[u.node]
  <2>1. CASE u = w
    BY <1>2, <1>3, <2>1
  <2>2. CASE u \in U
    <3>1. u.node \in Node /\ u.number \in Nat /\ u.number <= r.clock[u.node]
      BY <2>2 DEF Holds, UpTo, Updates
    <3> QED
      BY <1>1, <1>2, <3>1
  <2> QED
    BY <2>1, <2>2
<1>6. ASSUME NEW m \in Node, NEW i \in 1 .. c[m]
      PROVE  \E u \in From(U \cup {w}, m) : u.number = i
  <2>1. CASE m = n /\ i = c[n]
    BY <1>3, <2>1 DEF From
  <2>2. CASE i \in 1 .. r.clock[m]
    BY <2>2 DEF Holds, UpTo, From
  <2>3. CASE m = n
    <3>1. c[m] = r.clock[m] + 1 /\ r.clock[m] \in Nat
      BY <1>1, <1>2, <2>3
    <3>2. i = c[n] \/ i \in 1 .. r.clock[m]
      BY <2>3, <3>1
    <3> QED
      BY <2>1, <2>2, <2>3, <3>2
  <2>4. CASE m # n
    BY <1>2, <2>2, <2>4
  <2> QED
    BY <2>3, <2>4
<1>7. UpTo(c, U \cup {w})
  BY <1>5, <1>6 DEF UpTo
<1> QED
  BY <1>4, <1>7 DEF c, w

(* An update changes the part of the replica that it is about, and leaves  *)
(* what the others amount to.                                              *)
LEMMA OtherParts ==
  ASSUME NEW U, NEW w
  PROVE  /\ w.op # <<"increment">> => Increments(U \cup {w}) = Increments(U)
         /\ (\A x \in Elements : w.op # <<"add", x>> /\ w.op # <<"remove", x>>)
              => Items(U \cup {w}) = Items(U) /\ Removals(U \cup {w}) = Removals(U)
         /\ (w.op[1] # "write" \/ ~(w.op[3] > 0)) => Writes(U \cup {w}) = Writes(U)
<1>1. w.op # <<"increment">> => Increments(U \cup {w}) = Increments(U)
  BY DEF Increments
<1>2. ASSUME \A x \in Elements : w.op # <<"add", x>> /\ w.op # <<"remove", x>>
      PROVE  Items(U \cup {w}) = Items(U) /\ Removals(U \cup {w}) = Removals(U)
  BY <1>2 DEF Items, Removals
<1>3. (w.op[1] # "write" \/ ~(w.op[3] > 0)) => Writes(U \cup {w}) = Writes(U)
  BY DEF Writes
<1> QED
  BY <1>1, <1>2, <1>3

(* The parts put together *)
LEMMA UpdateHolds ==
  ASSUME NEW r, NEW U, Holds(r, U), NEW n \in Node, NEW op,
         NEW new \in Replicas, Numbered(r, n, op) \in Updates,
         \A m \in Node :
           new.counter[m] = Cardinality(From(Increments(U \cup {Numbered(r, n, op)}), m)),
         new.set = [items |-> Items(U \cup {Numbered(r, n, op)}),
                    tombstones |-> Removals(U \cup {Numbered(r, n, op)})],
         HoldsWrites(new.register, U \cup {Numbered(r, n, op)})
  PROVE  Holds([new EXCEPT !.clock = Incremented(r.clock, n)], U \cup {Numbered(r, n, op)})
<1> DEFINE w == Numbered(r, n, op)
           q == [new EXCEPT !.clock = Incremented(r.clock, n)]
<1>1. Incremented(r.clock, n) \in Counts /\ UpTo(Incremented(r.clock, n), U \cup {w})
  BY UpdateClock
<1>2. /\ q \in Replicas /\ q.clock = Incremented(r.clock, n)
      /\ q.counter = new.counter /\ q.set = new.set /\ q.register = new.register
  BY <1>1 DEF Replicas
<1>3. U \cup {w} \subseteq Updates /\ IsFiniteSet(U \cup {w})
  BY FS_AddElement DEF Holds
<1> HIDE DEF w, q
<1>4. Holds(q, U \cup {w})
  BY <1>1, <1>2, <1>3 DEF Holds, w
<1> QED
  BY <1>4 DEF q, w

(* GCounter::increment: one more of the node's own. *)
LEMMA IncrementHolds ==
  ASSUME NEW r, NEW U, Holds(r, U), NEW n \in Node
  PROVE  Holds([[r EXCEPT !.counter = Incremented(@, n)] EXCEPT !.clock = Incremented(r.clock, n)],
               U \cup {Numbered(r, n, <<"increment">>)})
<1> DEFINE w == Numbered(r, n, <<"increment">>)
           new == [r EXCEPT !.counter = Incremented(@, n)]
<1>1. /\ r \in Replicas /\ r.counter \in [Node -> Nat] /\ r.clock \in [Node -> Nat]
      /\ IsFiniteSet(U) /\ U \subseteq Updates
      /\ HoldsWrites(r.register, U)
      /\ r.set = [items |-> Items(U), tombstones |-> Removals(U)]
      /\ \A m \in Node : r.counter[m] = Cardinality(From(Increments(U), m))
  BY DEF Holds, Replicas, Counts
<1>2. /\ new \in Replicas /\ new.set = r.set /\ new.register = r.register
      /\ new.counter = [r.counter EXCEPT ![n] = @ + 1]
  BY <1>1 DEF Replicas, Counts, Incremented
<1>3. w.node = n /\ w.op = <<"increment">> /\ w.number = r.clock[n] + 1
  BY <1>1 DEF Numbered, Incremented
<1>4. w \in Updates
  BY UpdateClock DEF Numbered, Updates
<1>5. w \notin U
  <2> SUFFICES ASSUME w \in U PROVE FALSE
    OBVIOUS
  <2>1. w.number <= r.clock[n]
    BY <1>3 DEF Holds, UpTo
  <2> QED
    BY <1>1, <1>3, <2>1
<1>6. ASSUME NEW m \in Node
      PROVE  new.counter[m] = Cardinality(From(Increments(U \cup {w}), m))
  <2>1. CASE m # n
    <3>1. From(Increments(U \cup {w}), m) = From(Increments(U), m)
      BY <1>3, <2>1 DEF From, Increments
    <3> QED
      BY <1>1, <1>2, <2>1, <3>1
  <2>2. CASE m = n
    <3> DEFINE I == From(Increments(U), n)
    <3>1. From(Increments(U \cup {w}), n) = I \cup {w}
      BY <1>3 DEF From, Increments
    <3>2. I \in SUBSET U
      BY DEF From, Increments
    <3>3. IsFiniteSet(I) /\ w \notin I
      BY <1>1, <1>5, <3>2, FS_Subset
    <3>4. Cardinality(I \cup {w}) = Cardinality(I) + 1
      BY <3>3, FS_AddElement
    <3> QED
      BY <1>1, <1>2, <2>2, <3>1, <3>4
  <2> QED
    BY <2>1, <2>2
<1>7. /\ Items(U \cup {w}) = Items(U) /\ Removals(U \cup {w}) = Removals(U)
  <2>1. \A x \in Elements : w.op # <<"add", x>> /\ w.op # <<"remove", x>>
    BY <1>3
  <2> QED
    BY <2>1, OtherParts
<1>8. HoldsWrites(new.register, U \cup {w})
  <2>1. w.op[1] # "write"
    BY <1>3
  <2>2. Writes(U \cup {w}) = Writes(U)
    BY <2>1, OtherParts
  <2> QED
    BY <1>1, <1>2, <2>2 DEF HoldsWrites, IsLast
<1> HIDE DEF new
<1>9. Holds([new EXCEPT !.clock = Incremented(r.clock, n)], U \cup {w})
  BY <1>1, <1>2, <1>4, <1>6, <1>7, <1>8, UpdateHolds
<1> QED
  BY <1>9 DEF new

(* CrdtSet::add: an item with a tombstone is not added again. *)
LEMMA AddHolds ==
  ASSUME NEW r, NEW U, Holds(r, U), NEW n \in Node, NEW x \in Elements
  PROVE  Holds([[r EXCEPT !.set = Added(@, x)] EXCEPT !.clock = Incremented(r.clock, n)],
               U \cup {Numbered(r, n, <<"add", x>>)})
<1> DEFINE w == Numbered(r, n, <<"add", x>>)
           new == [r EXCEPT !.set = Added(@, x)]
<1>1. /\ r \in Replicas /\ HoldsWrites(r.register, U)
      /\ r.set = [items |-> Items(U), tombstones |-> Removals(U)]
      /\ \A m \in Node : r.counter[m] = Cardinality(From(Increments(U), m))
  BY DEF Holds
<1>2. /\ new.counter = r.counter /\ new.register = r.register /\ new.set = Added(r.set, x)
  BY <1>1 DEF Replicas
<1>3. w.op = <<"add", x>> /\ w.op[1] # "write"
  BY DEF Numbered
<1>4. w \in Updates
  BY UpdateClock DEF Numbered, Updates
<1>5. Increments(U \cup {w}) = Increments(U) /\ Writes(U \cup {w}) = Writes(U)
  <2>1. w.op # <<"increment">>
    BY <1>3
  <2> QED
    BY <1>3, <2>1, OtherParts
<1>6. new.set = [items |-> Items(U \cup {w}), tombstones |-> Removals(U \cup {w})]
  <2>1. Removals(U \cup {w}) = Removals(U)
    BY <1>3 DEF Removals
  <2>2. Items(U \cup {w}) = (Items(U) \cup {x}) \ Removals(U)
    <3>1. \A y \in Elements : (\E u \in U \cup {w} : u.op = <<"add", y>>)
                              <=> (\E u \in U : u.op = <<"add", y>>) \/ y = x
      BY <1>3
    <3> QED
      BY <2>1, <3>1 DEF Items
  <2>3. CASE x \in Removals(U)
    <3>1. new.set = r.set
      BY <1>1, <1>2, <2>3 DEF Added
    <3>2. Items(U \cup {w}) = Items(U)
      BY <2>2, <2>3 DEF Items
    <3> QED
      BY <1>1, <2>1, <3>1, <3>2
  <2>4. CASE x \notin Removals(U)
    <3>1. new.set = [items |-> Items(U) \cup {x}, tombstones |-> Removals(U)]
      BY <1>1, <1>2, <2>4 DEF Added
    <3>2. Items(U \cup {w}) = Items(U) \cup {x}
      BY <2>2, <2>4 DEF Items
    <3> QED
      BY <2>1, <3>1, <3>2
  <2> QED
    BY <2>3, <2>4
<1>7. new \in Replicas
  BY <1>1 DEF Replicas, Added, CrdtSets
<1>8. HoldsWrites(new.register, U \cup {w})
  BY <1>1, <1>2, <1>5 DEF HoldsWrites, IsLast
<1> HIDE DEF new
<1>9. Holds([new EXCEPT !.clock = Incremented(r.clock, n)], U \cup {w})
  BY <1>1, <1>2, <1>4, <1>5, <1>6, <1>7, <1>8, UpdateHolds
<1> QED
  BY <1>9 DEF new

(* CrdtSet::remove: the tombstone stays. *)
LEMMA RemoveHolds ==
  ASSUME NEW r, NEW U, Holds(r, U), NEW n \in Node, NEW x \in Elements
  PROVE  Holds([[r EXCEPT !.set = Removed(@, x)] EXCEPT !.clock = Incremented(r.clock, n)],
               U \cup {Numbered(r, n, <<"remove", x>>)})
<1> DEFINE w == Numbered(r, n, <<"remove", x>>)
           new == [r EXCEPT !.set = Removed(@, x)]
<1>1. /\ r \in Replicas /\ HoldsWrites(r.register, U)
      /\ r.set = [items |-> Items(U), tombstones |-> Removals(U)]
      /\ \A m \in Node : r.counter[m] = Cardinality(From(Increments(U), m))
  BY DEF Holds
<1>2. /\ new.counter = r.counter /\ new.register = r.register /\ new.set = Removed(r.set, x)
  BY <1>1 DEF Replicas
<1>3. w.op = <<"remove", x>> /\ w.op[1] # "write"
  BY DEF Numbered
<1>4. w \in Updates
  BY UpdateClock DEF Numbered, Updates
<1>5. Increments(U \cup {w}) = Increments(U) /\ Writes(U \cup {w}) = Writes(U)
  <2>1. w.op # <<"increment">>
    BY <1>3
  <2> QED
    BY <1>3, <2>1, OtherParts
<1>6. new.set = [items |-> Items(U \cup {w}), tombstones |-> Removals(U \cup {w})]
  <2>1. Removals(U \cup {w}) = Removals(U) \cup {x}
    BY <1>3 DEF Removals
  <2>2. Items(U \cup {w}) = Items(U) \ {x}
    <3>1. \A y \in Elements : (\E u \in U \cup {w} : u.op = <<"add", y>>)
                              <=> (\E u \in U : u.op = <<"add", y>>)
      BY <1>3
    <3>2. \A y : y \in Items(U \cup {w}) <=> y \in Items(U) /\ y # x
      BY <2>1, <3>1 DEF Items
    <3> QED
      BY <3>2
  <2>3. new.set = [items |-> Items(U) \ {x}, tombstones |-> Removals(U) \cup {x}]
    BY <1>1, <1>2 DEF Removed
  <2> QED
    BY <2>1, <2>2, <2>3
<1>7. new \in Replicas
  BY <1>1 DEF Replicas, Removed, CrdtSets
<1>8. HoldsWrites(new.register, U \cup {w})
  BY <1>1, <1>2, <1>5 DEF HoldsWrites, IsLast
<1> HIDE DEF new
<1>9. Holds([new EXCEPT !.clock = Incremented(r.clock, n)], U \cup {w})
  BY <1>1, <1>2, <1>4, <1>5, <1>6, <1>7, <1>8, UpdateHolds
<1> QED
  BY <1>9 DEF new

(* CrdtRegister::set: a write wins exactly if it is the last.  One at time *)
(* 0 never wins over the register of its own node.                         *)
LEMMA WriteHolds ==
  ASSUME NEW r, NEW U, Holds(r, U), NEW n \in Node, NEW x \in Elements, NEW t \in Timestamps,
         r.register.timestamp = 0 => r.register.node >= n
  PROVE  Holds([[r EXCEPT !.register = Written(@, x, t, n)]
                  EXCEPT !.clock = Incremented(r.clock, n)],
               U \cup {Numbered(r, n, <<"write", x, t>>)})
<1> DEFINE w == Numbered(r, n, <<"write", x, t>>)
           new == [r EXCEPT !.register = Written(@, x, t, n)]
           a == r.register
           W == U \cup {w}
<1>1. /\ r \in Replicas /\ HoldsWrites(a, U) /\ U \subseteq Updates
      /\ a \in Registers /\ r.clock \in [Node -> Nat]
      /\ r.set = [items |-> Items(U), tombstones |-> Removals(U)]
      /\ \A m \in Node : r.counter[m] = Cardinality(From(Increments(U), m))
  BY DEF Holds, Replicas, Counts
<1>2. /\ new.counter = r.counter /\ new.set = r.set /\ new.register = Written(a, x, t, n)
  BY <1>1 DEF Replicas
<1>3. /\ w.op = <<"write", x, t>> /\ w.op[1] = "write" /\ w.op[2] = x /\ w.op[3] = t
      /\ w.node = n /\ w.number = r.clock[n] + 1
  BY <1>1 DEF Numbered, Incremented
<1>4. w \in Updates
  BY UpdateClock DEF Numbered, Updates
<1>5. Increments(W) = Increments(U) /\ Items(W) = Items(U) /\ Removals(W) = Removals(U)
  <2>1. w.op # <<"increment">>
    BY <1>3
  <2>2. \A y \in Elements : w.op # <<"add", y>> /\ w.op # <<"remove", y>>
    BY <1>3
  <2> QED
    BY <2>1, <2>2, OtherParts
<1>6. t \in Nat /\ n \in Nat /\ a.timestamp \in Nat /\ a.node \in Nat /\ a.node \in Node
  BY <1>1, ClusterAssumption DEF ConstantsOK, Registers
<1>7. new \in Replicas
  BY <1>1, <1>6 DEF Replicas, Written, Registers
<1>8. HoldsWrites(new.register, W)
  <2>1. CASE t = 0
    <3>1. Writes(W) = Writes(U)
      BY <1>3, <2>1, OtherParts
    <3>2. Written(a, x, t, n) = a
      BY <1>6, <2>1 DEF Written, Wins
    <3> QED
      BY <1>1, <1>2, <3>1, <3>2 DEF HoldsWrites, IsLast
  <2>2. CASE t > 0
    <3>1. Writes(W) = Writes(U) \cup {w}
      BY <1>3, <2>2 DEF Writes
    <3>2. CASE Writes(U) = {}
      <4>1. a.timestamp = 0
        BY <1>1, <3>2 DEF HoldsWrites
      <4>2. Written(a, x, t, n) = [value |-> w.op[2], timestamp |-> w.op[3], node |-> w.node]
        BY <1>3, <1>6, <2>2, <4>1 DEF Written, Wins
      <4>3. IsLast(w, W)
        BY <3>1, <3>2 DEF IsLast
      <4> QED
        BY <1>2, <3>1, <4>2, <4>3 DEF HoldsWrites
    <3>3. CASE Writes(U) # {}
      <4>1. PICK u \in Writes(U) :
              /\ IsLast(u, U)
              /\ a = [value |-> u.op[2], timestamp |-> u.op[3], node |-> u.node]
        BY <1>1, <3>3 DEF HoldsWrites
      <4>2. /\ u \in U /\ u.op[3] \in Nat /\ u.node \in Node /\ u.node \in Nat
            /\ u.number \in Nat \ {0}
        BY <1>1, WriteTypes
      <4>3. a.timestamp = u.op[3] /\ a.node = u.node
        BY <4>1
      <4>4. CASE Wins(t, n, a)
        <5>1. Beats(w, u)
          BY <1>3, <1>6, <4>2, <4>3, <4>4 DEF Wins, Beats
        <5>2. W \subseteq Updates /\ u \in Writes(W) /\ w \in Writes(W)
          BY <1>1, <1>4, <3>1
        <5>3. \A v \in Writes(U) : Beats(w, v)
          <6> SUFFICES ASSUME NEW v \in Writes(U), v # u PROVE Beats(w, v)
            BY <5>1
          <6>1. Beats(u, v) /\ v \in Writes(W)
            BY <3>1, <4>1 DEF IsLast
          <6> HIDE DEF w, W
          <6> QED
            BY <5>1, <5>2, <6>1, BeatsTransitive
        <5>4. IsLast(w, W)
          BY <3>1, <5>3 DEF IsLast
        <5>5. Written(a, x, t, n) = [value |-> w.op[2], timestamp |-> w.op[3], node |-> w.node]
          BY <1>3, <4>4 DEF Written
        <5> QED
          BY <1>2, <5>2, <5>4, <5>5 DEF HoldsWrites
      <4>5. CASE ~Wins(t, n, a)
        <5>1. Beats(u, w)
          <6>1. u.op[3] > t \/ (u.op[3] = t /\ u.node > n) \/ (u.op[3] = t /\ u.node = n)
            BY <1>6, <4>2, <4>3, <4>5 DEF Wins
          <6>2. ASSUME u.node = n PROVE u.number < w.number
            <7>1. u.number <= r.clock[n] /\ r.clock[n] \in Nat
              BY <1>1, <4>2, <6>2 DEF Holds, UpTo
            <7> QED
              BY <1>3, <4>2, <7>1
          <6> QED
            BY <1>3, <6>1, <6>2 DEF Beats
        <5>2. IsLast(u, W)
          BY <3>1, <4>1, <5>1 DEF IsLast
        <5>3. Written(a, x, t, n) = a
          BY <4>5 DEF Written
        <5>4. u \in Writes(W)
          BY <3>1
        <5> QED
          BY <1>2, <4>1, <5>2, <5>3, <5>4 DEF HoldsWrites
      <4> QED
        BY <4>4, <4>5
    <3> QED
      BY <3>2, <3>3
  <2> QED
    BY <1>6, <2>1, <2>2
<1> HIDE DEF new
<1>9. Holds([new EXCEPT !.clock = Incremented(r.clock, n)], U \cup {w})
  BY <1>1, <1>2, <1>4, <1>5, <1>7, <1>8, UpdateHolds
<1> QED
  BY <1>9 DEF new

-----------------------------------------------------------------------------
(* The steps of the replicas                                               *)

LEMMA InitIInv == Init => IInv
<1> SUFFICES ASSUME Init PROVE IInv
  OBVIOUS
<1> USE DEF Init, ReplicaInit
<1>1. \A n \in Node : NewReplica(n) \in Replicas
  BY DEF NewReplica, Replicas, NoCounts, Counts, EmptySet, CrdtSets, EmptyRegister, Registers
<1>2. /\ replica \in [Node -> Replicas] /\ seen \in [Node -> SUBSET Updates]
      /\ outgoing \in [Node -> Seq(Messages)] /\ local_queue \in [Node -> Seq(Messages)]
      /\ transit \subseteq Messages
  <2>1. <<>> \in Seq(Messages)
    OBVIOUS
  <2> QED
    BY <1>1, <2>1
<1>3. AllSeen = {} /\ InFlight = {}
  BY DEF AllSeen, InFlight, ToSet
<1>4. ASSUME NEW n \in Node
      PROVE  Holds(replica[n], seen[n]) /\ Behind(replica[n].clock) /\ OwnStamp(n)
  <2>1. replica[n] = NewReplica(n) /\ seen[n] = {}
    OBVIOUS
  <2>2. UpTo(NoCounts, {})
    BY DEF UpTo, NoCounts
  <2>3. Increments({}) = {} /\ Items({}) = {} /\ Removals({}) = {} /\ Writes({}) = {}
    BY DEF Increments, Items, Removals, Writes
  <2>4. \A m \in Node : NoCounts[m] = Cardinality(From({}, m))
    <3>1. \A m \in Node : From({}, m) = {}
      BY DEF From
    <3> QED
      BY <3>1, FS_EmptySet DEF NoCounts
  <2>5. HoldsWrites(EmptyRegister(n), {})
    BY <2>3 DEF HoldsWrites, EmptyRegister
  <2>6. IsFiniteSet({}) /\ {} \subseteq Updates
    BY FS_EmptySet
  <2>7. Holds(NewReplica(n), {})
    BY <1>1, <2>2, <2>3, <2>4, <2>5, <2>6 DEF Holds, NewReplica, EmptySet
  <2>8. Behind(replica[n].clock)
    BY DEF Behind, NewReplica, NoCounts
  <2>9. OwnStamp(n)
    <3>1. n \in Nat
      BY ClusterAssumption DEF ConstantsOK
    <3> QED
      BY <3>1 DEF OwnStamp, NewReplica, EmptyRegister
  <2> QED
    BY <2>1, <2>7, <2>8, <2>9
<1>5. Unambiguous(AllSeen)
  BY <1>3 DEF Unambiguous
<1> QED
  BY <1>2, <1>3, <1>4, <1>5 DEF IInv

(* An update of a node is seen by no other and is in no message, and its   *)
(* number is new.                                                          *)
LEMMA UpdateStep ==
  ASSUME IInv, NEW n \in Node, NEW op, NEW new, Update(n, op, new),
         Holds([new EXCEPT !.clock = Incremented(replica[n].clock, n)],
               seen[n] \cup {Numbered(replica[n], n, op)}),
         new \in Replicas,
         new.register.timestamp = 0 => new.register.node >= n
  PROVE  IInv'
<1> DEFINE c == Incremented(replica[n].clock, n)
           w == Numbered(replica[n], n, op)
           q == [new EXCEPT !.clock = c]
<1>1. /\ replica' = [replica EXCEPT ![n] = q]
      /\ seen' = [seen EXCEPT ![n] = @ \cup {w}]
      /\ UNCHANGED <<outgoing, local_queue, message_counter, transit>>
  BY DEF Update, Numbered
<1>2. /\ replica \in [Node -> Replicas] /\ seen \in [Node -> SUBSET Updates]
      /\ replica[n].clock \in [Node -> Nat]
      /\ \A m \in Node : Holds(replica[m], seen[m]) /\ Behind(replica[m].clock) /\ OwnStamp(m)
      /\ Unambiguous(AllSeen)
  BY DEF IInv, Replicas, Counts
<1>3. /\ c \in [Node -> Nat] /\ c[n] = replica[n].clock[n] + 1
      /\ \A m \in Node : m # n => c[m] = replica[n].clock[m]
  BY <1>2 DEF Incremented
<1>4. q.clock = c /\ q.register = new.register
  BY DEF Replicas
<1>5. w.node = n /\ w.number = replica[n].clock[n] + 1
  BY <1>3 DEF Numbered
<1>6. Holds(q, seen[n] \cup {w})
  OBVIOUS
<1> HIDE DEF c, w, q
<1>7. q \in Replicas /\ w \in Updates
  BY <1>6 DEF Holds
<1>8. replica' \in [Node -> Replicas] /\ seen' \in [Node -> SUBSET Updates]
  BY <1>1, <1>2, <1>7
<1>9. AllSeen' = AllSeen \cup {w}
  BY <1>1, <1>2 DEF AllSeen
<1>10. ASSUME NEW u \in AllSeen, u.node = n PROVE u.number \in Nat /\ u.number < w.number
  <2>1. PICK m \in Node : u \in seen[m]
    BY DEF AllSeen
  <2>2. u.number <= replica[m].clock[n] /\ replica[m].clock[n] <= replica[n].clock[n]
    BY <1>2, <1>10, <2>1 DEF Holds, UpTo, Behind
  <2>3. u.number \in Nat /\ replica[m].clock[n] \in Nat /\ replica[n].clock[n] \in Nat
    BY <1>2, <2>1 DEF Updates, Replicas, Counts
  <2> QED
    BY <1>5, <2>2, <2>3
<1>11. Unambiguous(AllSeen')
  <2>1. w.number \in Nat
    BY <1>7 DEF Updates
  <2> QED
    BY <1>2, <1>5, <1>9, <1>10, <2>1 DEF Unambiguous
<1>12. \A m \in Node : replica'[m].clock[m] \in Nat /\ replica[m].clock[m] \in Nat
                        /\ replica[m].clock[m] <= replica'[m].clock[m]
  BY <1>1, <1>2, <1>3, <1>4 DEF Replicas, Counts
<1>13. ASSUME NEW d \in Counts, Behind(d) PROVE \A m \in Node : d[m] <= replica'[m].clock[m]
  <2> TAKE m \in Node
  <2>1. d[m] \in Nat /\ d[m] <= replica[m].clock[m]
    BY <1>13 DEF Behind, Counts
  <2> QED
    BY <1>12, <2>1
<1>14. ASSUME NEW m \in Node
       PROVE  /\ Holds(replica'[m], seen'[m])
              /\ \A k \in Node : replica'[m].clock[k] <= replica'[k].clock[k]
              /\ replica'[m].register.timestamp = 0 => replica'[m].register.node >= m
  <2>1. CASE m # n
    <3>1. replica'[m] = replica[m] /\ seen'[m] = seen[m] /\ replica[m].clock \in Counts
      BY <1>1, <1>2, <2>1 DEF Replicas
    <3> QED
      BY <1>2, <1>13, <3>1 DEF OwnStamp
  <2>2. CASE m = n
    <3>1. replica'[m] = q /\ seen'[m] = seen[n] \cup {w}
      BY <1>1, <1>2, <2>2
    <3>2. ASSUME NEW k \in Node PROVE c[k] <= replica'[k].clock[k]
      <4>1. CASE k = n
        BY <1>3, <1>4, <2>2, <3>1, <4>1
      <4>2. CASE k # n
        <5>1. replica[n].clock[k] <= replica[k].clock[k] /\ replica'[k] = replica[k]
          BY <1>1, <1>2, <4>2 DEF Behind
        <5> QED
          BY <1>3, <4>2, <5>1
      <4> QED
        BY <4>1, <4>2
    <3> QED
      BY <1>4, <1>6, <2>2, <3>1, <3>2
  <2> QED
    BY <2>1, <2>2
<1>15. InFlight' = InFlight
  BY <1>1 DEF InFlight, ToSet
<1>16. ASSUME NEW m \in InFlight
       PROVE  /\ Holds(m.payload, m.updates) /\ m.updates \subseteq AllSeen'
              /\ \A k \in Node : m.payload.clock[k] <= replica'[k].clock[k]
  <2>1. /\ Holds(m.payload, m.updates) /\ m.updates \subseteq AllSeen
        /\ Behind(m.payload.clock) /\ m.payload.clock \in Counts
    BY DEF IInv, Holds, Replicas
  <2> QED
    BY <1>9, <1>13, <2>1
<1>17. /\ outgoing' \in [Node -> Seq(Messages)] /\ local_queue' \in [Node -> Seq(Messages)]
       /\ transit' \subseteq Messages
  BY <1>1 DEF IInv
<1> QED
  BY <1>8, <1>11, <1>14, <1>15, <1>16, <1>17 DEF IInv, Behind, OwnStamp

(* What the buses and the transport do leaves replicas alone, and messages *)
(* hold what a replica held when they were sent.                           *)
LEMMA FlightStep ==
  ASSUME IInv, UNCHANGED <<replica, seen>>,
         outgoing' \in [Node -> Seq(Messages)], local_queue' \in [Node -> Seq(Messages)],
         transit' \subseteq Messages,
         \A m \in InFlight' :
           m \in InFlight \/ \E n \in Node : m.payload = replica[n] /\ m.updates = seen[n]
  PROVE  IInv'
<1>1. AllSeen' = AllSeen
  BY DEF AllSeen
<1>2. ASSUME NEW m \in InFlight'
      PROVE  Holds(m.payload, m.updates) /\ Behind(m.payload.clock) /\ m.updates \subseteq AllSeen
  <2>1. CASE m \in InFlight
    BY <2>1 DEF IInv
  <2>2. ASSUME NEW n \in Node, m.payload = replica[n], m.updates = seen[n]
        PROVE  Holds(m.payload, m.updates) /\ Behind(m.payload.clock) /\ m.updates \subseteq AllSeen
    BY <2>2 DEF IInv, AllSeen
  <2> QED
    BY <2>1, <2>2
<1>3. /\ replica' \in [Node -> Replicas] /\ seen' \in [Node -> SUBSET Updates]
      /\ Unambiguous(AllSeen')
      /\ \A n \in Node : Holds(replica'[n], seen'[n])
      /\ \A n \in Node : Behind(replica'[n].clock) /\ OwnStamp(n)
  BY <1>1 DEF IInv
<1> QED
  BY <1>1, <1>2, <1>3 DEF IInv, Behind, OwnStamp

(* Messages in and out of a queue *)
LEMMA QueuedMessages ==
  ASSUME NEW S, NEW s \in Seq(S)
  PROVE  /\ ToSet(s) \subseteq S
         /\ \A e \in S : Append(s, e) \in Seq(S) /\ ToSet(Append(s, e)) = ToSet(s) \cup {e}
         /\ s # <<>> => /\ Head(s) \in ToSet(s) /\ Tail(s) \in Seq(S)
                        /\ ToSet(Tail(s)) \subseteq ToSet(s)
<1>1. ToSet(s) \subseteq S
  BY DEF ToSet
<1>2. ASSUME NEW e \in S
      PROVE  Append(s, e) \in Seq(S) /\ ToSet(Append(s, e)) = ToSet(s) \cup {e}
  <2>1. /\ Append(s, e) \in Seq(S) /\ Len(Append(s, e)) = Len(s) + 1
        /\ Append(s, e)[Len(s) + 1] = e
        /\ \A i \in 1 .. Len(s) : Append(s, e)[i] = s[i]
    BY AppendProperties
  <2>2. ToSet(Append(s, e)) = {Append(s, e)[i] : i \in 1 .. Len(s) + 1}
    BY <2>1 DEF ToSet
  <2>3. ToSet(s) = {s[i] : i \in 1 .. Len(s)} /\ Len(s) \in Nat
    BY DEF ToSet
  <2> QED
    BY <2>1, <2>2, <2>3
<1>3. ASSUME s # <<>>
      PROVE  Head(s) \in ToSet(s) /\ Tail(s) \in Seq(S) /\ ToSet(Tail(s)) \subseteq ToSet(s)
  <2>1. /\ Len(s) \in Nat \ {0} /\ Head(s) = s[1]
        /\ Tail(s) \in Seq(S) /\ Len(Tail(s)) = Len(s) - 1
        /\ \A i \in 1 .. Len(Tail(s)) : Tail(s)[i] = s[i + 1]
    BY <1>3, HeadTailProperties
  <2>2. ToSet(s) = {s[i] : i \in 1 .. Len(s)}
    BY DEF ToSet
  <2>3. ToSet(Tail(s)) = {Tail(s)[i] : i \in 1 .. Len(Tail(s))}
    <3>1. DOMAIN Tail(s) = 1 .. Len(Tail(s))
      BY <2>1
    <3> QED
      BY <3>1 DEF ToSet
  <2>4. \A i \in 1 .. Len(Tail(s)) : i + 1 \in 1 .. Len(s)
    BY <2>1
  <2> QED
    BY <2>1, <2>2, <2>3, <2>4
<1> QED
  BY <1>1, <1>2, <1>3

LEMMA SendStep ==
  ASSUME IInv, NEW n \in Node, NEW dst \in SUBSET Node, Send(n, dst),
         message_counter \in [Node -> Nat]
  PROVE  IInv'
<1> DEFINE m == Message(n, NextId(n), dst)
<1>1. /\ outgoing \in [Node -> Seq(Messages)]
      /\ outgoing' = [outgoing EXCEPT ![n] = Append(@, m)]
      /\ UNCHANGED <<replica, local_queue, transit, seen>>
  BY DEF IInv, Send
<1>2. m \in Messages /\ m.payload = replica[n] /\ m.updates = seen[n]
  BY DEF Message, NextId, Messages, IInv
<1> HIDE DEF m
<1>3. /\ outgoing' \in [Node -> Seq(Messages)]
      /\ \A k \in Node : ToSet(outgoing'[k]) \subseteq ToSet(outgoing[k]) \cup {m}
  <2>1. Append(outgoing[n], m) \in Seq(Messages)
        /\ ToSet(Append(outgoing[n], m)) = ToSet(outgoing[n]) \cup {m}
    BY <1>1, <1>2, QueuedMessages
  <2> QED
    BY <1>1, <2>1
<1>4. \A x \in InFlight' : x \in InFlight \/ x = m
  BY <1>1, <1>3 DEF InFlight
<1>5. local_queue' \in [Node -> Seq(Messages)] /\ transit' \subseteq Messages
  BY <1>1 DEF IInv
<1>6. \A x \in InFlight' :
        x \in InFlight \/ \E k \in Node : x.payload = replica[k] /\ x.updates = seen[k]
  BY <1>2, <1>4
<1> QED
  BY <1>1, <1>3, <1>5, <1>6, FlightStep

LEMMA DrainStep ==
  ASSUME IInv, NEW n \in Node, DrainOutgoing(n)
  PROVE  IInv'
<1>1. /\ outgoing \in [Node -> Seq(Messages)] /\ transit \subseteq Messages
      /\ transit' = transit \cup ToSet(outgoing[n])
      /\ outgoing' = [outgoing EXCEPT ![n] = <<>>]
      /\ UNCHANGED <<replica, local_queue, message_counter, seen>>
  BY DEF IInv, DrainOutgoing
<1>2. outgoing' \in [Node -> Seq(Messages)]
  <2>1. <<>> \in Seq(Messages)
    OBVIOUS
  <2> QED
    BY <1>1, <2>1
<1>3. transit' \subseteq Messages
  BY <1>1, QueuedMessages
<1>4. \A k \in Node : ToSet(outgoing'[k]) \subseteq ToSet(outgoing[k])
  <2>1. ToSet(<<>>) = {}
    BY DEF ToSet
  <2> QED
    BY <1>1, <2>1
<1>5. \A x \in InFlight' : x \in InFlight
  BY <1>1, <1>4 DEF InFlight
<1>6. local_queue' \in [Node -> Seq(Messages)]
  BY <1>1 DEF IInv
<1> QED
  BY <1>1, <1>2, <1>3, <1>5, <1>6, FlightStep

LEMMA HandleStep ==
  ASSUME IInv, NEW n \in Node, HandleIncoming(n)
  PROVE  IInv'
<1>1. PICK m \in transit :
        /\ local_queue' = [local_queue EXCEPT ![n] = Append(@, m)]
        /\ UNCHANGED <<replica, outgoing, message_counter, transit, seen>>
  BY DEF HandleIncoming
<1>2. local_queue \in [Node -> Seq(Messages)] /\ m \in Messages /\ m \in InFlight
  BY DEF IInv, InFlight
<1>3. /\ local_queue' \in [Node -> Seq(Messages)]
      /\ \A k \in Node : ToSet(local_queue'[k]) \subseteq ToSet(local_queue[k]) \cup {m}
  <2>1. Append(local_queue[n], m) \in Seq(Messages)
        /\ ToSet(Append(local_queue[n], m)) = ToSet(local_queue[n]) \cup {m}
    BY <1>2, QueuedMessages
  <2> QED
    BY <1>1, <1>2, <2>1
<1>4. \A x \in InFlight' : x \in InFlight
  BY <1>1, <1>2, <1>3 DEF InFlight
<1>5. outgoing' \in [Node -> Seq(Messages)] /\ transit' \subseteq Messages
  BY <1>1 DEF IInv
<1> QED
  BY <1>1, <1>3, <1>4, <1>5, FlightStep

(* A node merges what it received, however old it is and however often it  *)
(* was merged before.                                                      *)
LEMMA ReceiveStep ==
  ASSUME IInv, NEW n \in Node, Receive(n)
  PROVE  IInv'
<1> DEFINE m == Head(local_queue[n])
           q == Merged(replica[n], m.payload)
<1>1. /\ local_queue[n] # <<>>
      /\ replica' = [replica EXCEPT ![n] = q]
      /\ seen' = [seen EXCEPT ![n] = @ \cup m.updates]
      /\ local_queue' = [local_queue EXCEPT ![n] = Tail(@)]
      /\ UNCHANGED <<outgoing, message_counter, transit>>
  BY DEF Receive
<1>2. /\ replica \in [Node -> Replicas] /\ seen \in [Node -> SUBSET Updates]
      /\ local_queue \in [Node -> Seq(Messages)]
      /\ \A k \in Node : Holds(replica[k], seen[k]) /\ Behind(replica[k].clock) /\ OwnStamp(k)
      /\ Unambiguous(AllSeen)
  BY DEF IInv
<1>3. /\ m \in ToSet(local_queue[n]) /\ Tail(local_queue[n]) \in Seq(Messages)
      /\ ToSet(Tail(local_queue[n])) \subseteq ToSet(local_queue[n])
  BY <1>1, <1>2, QueuedMessages
<1>4. m \in InFlight
  BY <1>3 DEF InFlight
<1>5. Holds(m.payload, m.updates) /\ Behind(m.payload.clock) /\ m.updates \subseteq AllSeen
  BY <1>4 DEF IInv
<1>6. Holds(q, seen[n] \cup m.updates)
  <2>1. seen[n] \cup m.updates \subseteq AllSeen
    BY <1>5 DEF AllSeen
  <2>2. Unambiguous(seen[n] \cup m.updates)
    BY <1>2, <2>1 DEF Unambiguous
  <2> HIDE DEF m
  <2> QED
    BY <1>2, <1>5, <2>2, MergeHolds
<1>7. /\ q.clock = MergedCounts(replica[n].clock, m.payload.clock)
      /\ q.register = MergedRegisters(replica[n].register, m.payload.register)
  BY DEF Merged
<1>8. /\ replica[n].clock \in [Node -> Nat] /\ m.payload.clock \in [Node -> Nat]
      /\ replica[n].register \in Registers /\ m.payload.register \in Registers
  BY <1>2, <1>5 DEF Holds, Replicas, Counts
<1> HIDE DEF m, q
<1>9. /\ \A k \in Node : q.clock[k] = replica[n].clock[k] \/ q.clock[k] = m.payload.clock[k]
      /\ \A k \in Node : q.clock[k] >= replica[n].clock[k]
  BY <1>7, <1>8 DEF MergedCounts, Larger
<1>10. q.clock[n] = replica[n].clock[n]
  <2>1. m.payload.clock[n] <= replica[n].clock[n]
    BY <1>5 DEF Behind
  <2> QED
    BY <1>8, <1>9, <2>1
<1>11. q \in Replicas
  BY <1>6 DEF Holds
<1>12. \A k \in Node : replica'[k].clock[k] = replica[k].clock[k]
  BY <1>1, <1>2, <1>10
<1>13. /\ replica' \in [Node -> Replicas] /\ seen' \in [Node -> SUBSET Updates]
       /\ local_queue' \in [Node -> Seq(Messages)]
  BY <1>1, <1>2, <1>3, <1>5, <1>11 DEF Holds
<1>14. AllSeen' = AllSeen
  BY <1>1, <1>2, <1>5 DEF AllSeen
<1>15. ASSUME NEW k \in Node
       PROVE  /\ Holds(replica'[k], seen'[k])
              /\ \A j \in Node : replica'[k].clock[j] <= replica[j].clock[j]
              /\ replica'[k].register.timestamp = 0 => replica'[k].register.node >= k
  <2>1. CASE k # n
    <3>1. replica'[k] = replica[k] /\ seen'[k] = seen[k]
      BY <1>1, <1>2, <2>1
    <3> QED
      BY <1>2, <3>1 DEF OwnStamp, Behind
  <2>2. CASE k = n
    <3>1. replica'[k] = q /\ seen'[k] = seen[n] \cup m.updates
      BY <1>1, <1>2, <2>2
    <3>2. \A j \in Node : q.clock[j] <= replica[j].clock[j]
      BY <1>2, <1>5, <1>9 DEF Behind
    <3>3. ASSUME q.register.timestamp = 0 PROVE q.register.node >= n
      <4>1. /\ replica[n].register.timestamp \in Nat /\ replica[n].register.node \in Nat
            /\ m.payload.register.timestamp \in Nat /\ m.payload.register.node \in Nat
            /\ n \in Nat
        BY <1>8, ClusterAssumption DEF Registers, ConstantsOK
      <4>2. replica[n].register.timestamp = 0 => replica[n].register.node >= n
        BY <1>2 DEF OwnStamp
      <4> QED
        BY <1>7, <3>3, <4>1, <4>2 DEF MergedRegisters, Wins
    <3> QED
      BY <1>6, <2>2, <3>1, <3>2, <3>3
  <2> QED
    BY <2>1, <2>2
<1>16. \A x \in InFlight' : x \in InFlight
  <2>1. \A k \in Node : ToSet(local_queue'[k]) \subseteq ToSet(local_queue[k])
    BY <1>1, <1>2, <1>3
  <2>2. outgoing' = outgoing /\ transit' = transit
    BY <1>1
  <2> QED
    BY <2>1, <2>2 DEF InFlight
<1>17. ASSUME NEW x \in InFlight'
       PROVE  /\ Holds(x.payload, x.updates) /\ x.updates \subseteq AllSeen'
              /\ \A j \in Node : x.payload.clock[j] <= replica'[j].clock[j]
  <2>1. Holds(x.payload, x.updates) /\ Behind(x.payload.clock) /\ x.updates \subseteq AllSeen
    BY <1>16 DEF IInv
  <2> QED
    BY <1>12, <1>14, <2>1 DEF Behind
<1>18. outgoing' \in [Node -> Seq(Messages)] /\ transit' \subseteq Messages
  BY <1>1 DEF IInv
<1>19. Unambiguous(AllSeen')
  BY <1>2, <1>14
<1>20. \A k, j \in Node : replica'[k].clock[j] <= replica'[j].clock[j]
  BY <1>12, <1>15
<1> QED
  BY <1>13, <1>15, <1>17, <1>18, <1>19, <1>20 DEF IInv, Behind, OwnStamp

(* The invariant needs only that messages are counted with numbers. *)
CountersTyped == message_counter \in [Node -> Nat]

LEMMA NextIInv ==
  ASSUME IInv, CountersTyped, [Next]_vars
  PROVE  IInv' /\ CountersTyped'
<1>1. CountersTyped'
  <2>1. ASSUME NEW n \in Node, NEW dst, Send(n, dst) PROVE CountersTyped'
    BY <2>1 DEF Send, NextId, CountersTyped
  <2>2. CASE UNCHANGED message_counter
    BY <2>2 DEF CountersTyped
  <2> QED
    BY <2>1, <2>2 DEF Next, ReplicaNext, Update, Increment, AddItem, RemoveItem, Write,
                      DrainOutgoing, HandleIncoming, Receive, vars, replicavars
<1>2. IInv'
  <2> DEFINE Up(n) == replica[n] \in Replicas /\ Holds(replica[n], seen[n]) /\ OwnStamp(n)
  <2>0. \A n \in Node : Up(n)
    BY DEF IInv
  <2>1. CASE UNCHANGED replicavars
    <3>1. UNCHANGED <<replica, outgoing, local_queue, transit, seen>>
      BY <2>1 DEF replicavars
    <3>2. InFlight' = InFlight
      BY <3>1 DEF InFlight
    <3>3. /\ outgoing' \in [Node -> Seq(Messages)] /\ local_queue' \in [Node -> Seq(Messages)]
          /\ transit' \subseteq Messages
      BY <3>1 DEF IInv
    <3> QED
      BY <3>1, <3>2, <3>3, FlightStep
  <2>2. ASSUME NEW n \in Node, Increment(n) PROVE IInv'
    <3> DEFINE new == [replica[n] EXCEPT !.counter = Incremented(@, n)]
    <3>1. Update(n, <<"increment">>, new)
      BY <2>2 DEF Increment
    <3>2. Holds([new EXCEPT !.clock = Incremented(replica[n].clock, n)],
                seen[n] \cup {Numbered(replica[n], n, <<"increment">>)})
      BY <2>0, IncrementHolds
    <3>3. new \in Replicas /\ new.register = replica[n].register
      BY <2>0 DEF Replicas, Counts, Incremented
    <3>4. new.register.timestamp = 0 => new.register.node >= n
      BY <2>0, <3>3 DEF OwnStamp
    <3> HIDE DEF new
    <3> QED
      BY <3>1, <3>2, <3>3, <3>4, UpdateStep
  <2>3. ASSUME NEW n \in Node, NEW x \in Elements, AddItem(n, x) PROVE IInv'
    <3> DEFINE new == [replica[n] EXCEPT !.set = Added(@, x)]
    <3>1. Update(n, <<"add", x>>, new)
      BY <2>3 DEF AddItem
    <3>2. Holds([new EXCEPT !.clock = Incremented(replica[n].clock, n)],
                seen[n] \cup {Numbered(replica[n], n, <<"add", x>>)})
      BY <2>0, AddHolds
    <3>3. new \in Replicas /\ new.register = replica[n].register
      BY <2>0 DEF Replicas, Added, CrdtSets
    <3>4. new.register.timestamp = 0 => new.register.node >= n
      BY <2>0, <3>3 DEF OwnStamp
    <3> HIDE DEF new
    <3> QED
      BY <3>1, <3>2, <3>3, <3>4, UpdateStep
  <2>4. ASSUME NEW n \in Node, NEW x \in Elements, RemoveItem(n, x) PROVE IInv'
    <3> DEFINE new == [replica[n] EXCEPT !.set = Removed(@, x)]
    <3>1. Update(n, <<"remove", x>>, new)
      BY <2>4 DEF RemoveItem
    <3>2. Holds([new EXCEPT !.clock = Incremented(replica[n].clock, n)],
                seen[n] \cup {Numbered(replica[n], n, <<"remove", x>>)})
      BY <2>0, RemoveHolds
    <3>3. new \in Replicas /\ new.register = replica[n].register
      BY <2>0 DEF Replicas, Removed, CrdtSets
    <3>4. new.register.timestamp = 0 => new.register.node >= n
      BY <2>0, <3>3 DEF OwnStamp
    <3> HIDE DEF new
    <3> QED
      BY <3>1, <3>2, <3>3, <3>4, UpdateStep
  <2>5. ASSUME NEW n \in Node, NEW x \in Elements, NEW t \in Timestamps, Write(n, x, t)
        PROVE  IInv'
    <3> DEFINE new == [replica[n] EXCEPT !.register = Written(@, x, t, n)]
    <3>1. Update(n, <<"write", x, t>>, new)
      BY <2>5 DEF Write
    <3>2. Holds([new EXCEPT !.clock = Incremented(replica[n].clock, n)],
                seen[n] \cup {Numbered(replica[n], n, <<"write", x, t>>)})
      BY <2>0, WriteHolds DEF OwnStamp
    <3>3. /\ new \in Replicas /\ replica[n].register \in Registers
          /\ new.register = Written(replica[n].register, x, t, n)
      BY <2>0, ClusterAssumption DEF ConstantsOK, Replicas, Written, Registers
    <3>4. new.register.timestamp = 0 => new.register.node >= n
      <4>1. n \in Nat
        BY ClusterAssumption DEF ConstantsOK
      <4> QED
        BY <2>0, <3>3, <4>1 DEF OwnStamp, Written
    <3> HIDE DEF new
    <3> QED
      BY <3>1, <3>2, <3>3, <3>4, UpdateStep
  <2>6. ASSUME NEW n \in Node, NEW dst \in {{m} : m \in Node \ {n}} \cup {Node}, Send(n, dst)
        PROVE  IInv'
    BY <2>6, SendStep DEF CountersTyped
  <2> QED
    BY <2>1, <2>2, <2>3, <2>4, <2>5, <2>6, DrainStep, HandleStep, ReceiveStep
    DEF Next, ReplicaNext, vars
<1> QED
  BY <1>1, <1>2

(* Each replica, and each snapshot of one in a message, holds exactly what *)
(* the updates it includes amount to, of each node those up to the number  *)
(* in its clock: for any nodes, elements and stamps, and any use of the    *)
(* buses and of the transport between them.                                *)
THEOREM ReplicasHold == Spec => []IInv
<1>1. Init => IInv /\ CountersTyped
  BY InitIInv DEF Init, ReplicaInit, CountersTyped
<1>2. IInv /\ CountersTyped /\ [Next]_vars => IInv' /\ CountersTyped'
  BY NextIInv
<1> QED
  BY <1>1, <1>2, PTL DEF Spec

-----------------------------------------------------------------------------
(* What clocks and replicas tell                                           *)

(* A clock is not behind another exactly if its replica includes all that  *)
(* the other does.                                                         *)
LEMMA ClockOrder ==
  ASSUME IInv, NEW m \in Node, NEW n \in Node
  PROVE  (\A k \in Node : replica[m].clock[k] <= replica[n].clock[k])
           <=> seen[m] \subseteq seen[n]
<1>1. Holds(replica[m], seen[m]) /\ Holds(replica[n], seen[n])
  BY DEF IInv
<1>2. Unambiguous(seen[n] \cup seen[m])
  <2>1. seen[n] \cup seen[m] \subseteq AllSeen
    BY DEF AllSeen
  <2> QED
    BY <2>1 DEF IInv, Unambiguous
<1>3. \A u \in seen[m] : u.node \in Node
  BY <1>1 DEF Holds, Updates
<1>4. ASSUME \A k \in Node : replica[m].clock[k] <= replica[n].clock[k]
      PROVE  seen[m] \subseteq seen[n]
  <2> SUFFICES ASSUME NEW u \in seen[m] PROVE u \in seen[n]
    OBVIOUS
  <2>1. From(seen[m], u.node) \subseteq From(seen[n], u.node)
    BY <1>1, <1>2, <1>3, <1>4, Prefix
  <2> QED
    BY <2>1 DEF From
<1>5. ASSUME seen[m] \subseteq seen[n], NEW k \in Node
      PROVE  replica[m].clock[k] <= replica[n].clock[k]
  <2>1. From(seen[m], k) \subseteq From(seen[n], k)
    BY <1>5 DEF From
  <2> QED
    BY <1>1, <2>1, PrefixClock
<1> QED
  BY <1>4, <1>5

(* Comparing the clocks of two replicas tells whether one includes all     *)
(* updates of the other (VectorClock::compare), for any number of nodes    *)
(* and updates.                                                            *)
THEOREM ClocksTellCausality == Spec => []ClocksShowCausality
<1>1. IInv => ClocksShowCausality
  <2> SUFFICES ASSUME IInv, NEW m \in Node, NEW n \in Node
               PROVE  Compare(replica[m].clock, replica[n].clock) =
                        CASE seen[m] = seen[n] -> "Equal"
                          [] seen[m] \subseteq seen[n] /\ seen[m] # seen[n] -> "Before"
                          [] seen[n] \subseteq seen[m] /\ seen[m] # seen[n] -> "After"
                          [] OTHER -> "Concurrent"
    BY DEF ClocksShowCausality
  <2> DEFINE c == replica[m].clock
             d == replica[n].clock
             less == \E k \in Node : c[k] < d[k]
             greater == \E k \in Node : c[k] > d[k]
  <2>1. c \in [Node -> Nat] /\ d \in [Node -> Nat]
    BY DEF IInv, Replicas, Counts
  <2>2. ~greater <=> seen[m] \subseteq seen[n]
    <3>1. ~greater <=> \A k \in Node : c[k] <= d[k]
      BY <2>1
    <3> QED
      BY <3>1, ClockOrder
  <2>3. ~less <=> seen[n] \subseteq seen[m]
    <3>1. ~less <=> \A k \in Node : d[k] <= c[k]
      BY <2>1
    <3> QED
      BY <3>1, ClockOrder
  <2>4. Compare(c, d) = CASE ~less /\ ~greater -> "Equal"
                          [] less /\ ~greater -> "Before"
                          [] ~less /\ greater -> "After"
                          [] OTHER -> "Concurrent"
    BY DEF Compare
  <2>5. seen[m] = seen[n] <=> seen[m] \subseteq seen[n] /\ seen[n] \subseteq seen[m]
    OBVIOUS
  <2> HIDE DEF c, d, less, greater
  <2>6. Compare(c, d) = CASE seen[m] = seen[n] -> "Equal"
                          [] seen[m] \subseteq seen[n] /\ seen[m] # seen[n] -> "Before"
                          [] seen[n] \subseteq seen[m] /\ seen[m] # seen[n] -> "After"
                          [] OTHER -> "Concurrent"
    <3>1. CASE seen[m] \subseteq seen[n] /\ seen[n] \subseteq seen[m]
      BY <2>2, <2>3, <2>4, <2>5, <3>1
    <3>2. CASE seen[m] \subseteq seen[n] /\ ~(seen[n] \subseteq seen[m])
      BY <2>2, <2>3, <2>4, <2>5, <3>2
    <3>3. CASE ~(seen[m] \subseteq seen[n]) /\ seen[n] \subseteq seen[m]
      BY <2>2, <2>3, <2>4, <2>5, <3>3
    <3>4. CASE ~(seen[m] \subseteq seen[n]) /\ ~(seen[n] \subseteq seen[m])
      BY <2>2, <2>3, <2>4, <2>5, <3>4
    <3> QED
      BY <3>1, <3>2, <3>3, <3>4
  <2> QED
    BY <2>6 DEF c, d
<1> QED
  BY <1>1, ReplicasHold, PTL

(* The sum of the counts of all nodes is the number of increments: what    *)
(* the counts of the nodes number is put together, one increment for each  *)
(* pair of a node and a number up to its count (GCounter::value).          *)
LEMMA CountsEachOnce ==
  ASSUME NEW r, NEW U, Holds(r, U)
  PROVE  CounterValue(r.counter) = Cardinality(Increments(U))
<1> DEFINE I(n) == From(Increments(U), n)
           Pairs == UNION {{n} \X (1 .. r.counter[n]) : n \in Node}
           g == [n \in Node |-> CHOOSE f : f \in Bijection(1 .. r.counter[n], I(n))]
           h == [p \in Pairs |-> g[p[1]][p[2]]]
<1>1. r.counter \in [Node -> Nat] /\ U \subseteq Updates /\ IsFiniteSet(U)
      /\ \A n \in Node : r.counter[n] = Cardinality(I(n))
  BY DEF Holds, Replicas, Counts
<1>2. \A n \in Node : g[n] \in Bijection(1 .. r.counter[n], I(n))
  <2> TAKE n \in Node
  <2>1. I(n) \in SUBSET U
    BY DEF From, Increments
  <2>2. IsFiniteSet(I(n))
    BY <1>1, <2>1, FS_Subset
  <2>3. ExistsBijection(1 .. r.counter[n], I(n))
    BY <1>1, <2>2, FS_CardinalityType
  <2> QED
    BY <2>3 DEF ExistsBijection
<1>3. \A n \in Node :
        /\ \A i \in 1 .. r.counter[n] : g[n][i] \in I(n)
        /\ \A i, j \in 1 .. r.counter[n] : g[n][i] = g[n][j] => i = j
        /\ \A u \in I(n) : \E i \in 1 .. r.counter[n] : g[n][i] = u
  <2> TAKE n \in Node
  <2> HIDE DEF I, g
  <2>1. g[n] \in Injection(1 .. r.counter[n], I(n)) /\ g[n] \in Surjection(1 .. r.counter[n], I(n))
    BY <1>2 DEF Bijection
  <2>2. g[n] \in [1 .. r.counter[n] -> I(n)] /\ IsInjective(g[n])
    BY <2>1 DEF Injection
  <2>3. \A u \in I(n) : \E i \in 1 .. r.counter[n] : g[n][i] = u
    BY <2>1 DEF Surjection
  <2> QED
    BY <2>2, <2>3 DEF IsInjective
<1>4. \A p \in Pairs : p = <<p[1], p[2]>> /\ p[1] \in Node /\ p[2] \in 1 .. r.counter[p[1]]
  OBVIOUS
<1>5. \A n \in Node : \A i \in 1 .. r.counter[n] : <<n, i>> \in Pairs
  OBVIOUS
<1>6. \A u \in Increments(U) : u.node \in Node /\ u \in I(u.node)
  BY <1>1 DEF Increments, From, Updates
<1>7. \A n \in Node : \A u \in I(n) : u.node = n /\ u \in Increments(U)
  BY DEF From
<1> HIDE DEF I, Pairs, g
<1>8. \A p \in Pairs : h[p] = g[p[1]][p[2]]
  OBVIOUS
<1>9. h \in [Pairs -> Increments(U)]
  BY <1>3, <1>4, <1>7
<1>10. \A p, q \in Pairs : h[p] = h[q] => p = q
  <2> SUFFICES ASSUME NEW p \in Pairs, NEW q \in Pairs, h[p] = h[q] PROVE p = q
    OBVIOUS
  <2>1. g[p[1]][p[2]] = g[q[1]][q[2]]
    BY <1>8
  <2> HIDE DEF h
  <2>2. g[p[1]][p[2]] \in I(p[1]) /\ g[q[1]][q[2]] \in I(q[1])
    BY <1>3, <1>4
  <2>3. p[1] = q[1]
    BY <1>4, <1>7, <2>1, <2>2
  <2>4. p[2] = q[2]
    BY <1>3, <1>4, <2>1, <2>3
  <2> QED
    BY <1>4, <2>3, <2>4
<1>11. \A u \in Increments(U) : \E p \in Pairs : h[p] = u
  <2> TAKE u \in Increments(U)
  <2>1. PICK i \in 1 .. r.counter[u.node] : g[u.node][i] = u
    BY <1>3, <1>6
  <2>2. <<u.node, i>> \in Pairs
    BY <1>5, <1>6
  <2>3. h[<<u.node, i>>] = u
    BY <1>8, <2>1, <2>2
  <2> QED
    BY <2>2, <2>3
<1> HIDE DEF h
<1>12. h \in Injection(Pairs, Increments(U)) /\ h \in Surjection(Pairs, Increments(U))
  BY <1>9, <1>10, <1>11 DEF Injection, Surjection, IsInjective
<1>13. IsFiniteSet(Increments(U))
  <2>1. Increments(U) \in SUBSET U
    BY DEF Increments
  <2> QED
    BY <1>1, <2>1, FS_Subset
<1>14. Cardinality(Pairs) = Cardinality(Increments(U))
  <2>1. IsFiniteSet(Pairs) /\ Cardinality(Pairs) = Cardinality(Increments(U))
    BY <1>12, <1>13, FS_Injection
  <2> QED
    BY <2>1
<1> QED
  BY <1>14 DEF CounterValue, Pairs

(* There is one last write. *)
LEMMA LastIsUnique ==
  ASSUME NEW r, NEW U, Holds(r, U)
  PROVE  r.register.value = LastWrite(U)
<1>1. U \subseteq Updates /\ HoldsWrites(r.register, U)
  BY DEF Holds
<1>2. CASE Writes(U) = {}
  BY <1>1, <1>2 DEF HoldsWrites, LastWrite
<1>3. CASE Writes(U) # {}
  <2>1. PICK u \in Writes(U) :
          /\ IsLast(u, U)
          /\ r.register = [value |-> u.op[2], timestamp |-> u.op[3], node |-> u.node]
    BY <1>1, <1>3 DEF HoldsWrites
  <2> DEFINE BeatsRest(v) == \A x \in Writes(U) \ {v} : Beats(v, x)
             w == CHOOSE v \in Writes(U) : BeatsRest(v)
  <2>2. BeatsRest(u)
    BY <2>1 DEF IsLast
  <2>3. w \in Writes(U) /\ BeatsRest(w)
    BY <2>2
  <2>4. w = u
    <3> SUFFICES ASSUME w # u PROVE FALSE
      OBVIOUS
    <3>1. Beats(w, u) /\ Beats(u, w)
      BY <2>2, <2>3
    <3> HIDE DEF w
    <3> QED
      BY <1>1, <2>3, <3>1, BeatsIrreflexive
  <2>5. LastWrite(U) = w.op[2]
    BY <1>3 DEF LastWrite
  <2>6. r.register.value = u.op[2]
    BY <2>1
  <2> HIDE DEF w
  <2> QED
    BY <2>4, <2>5, <2>6
<1> QED
  BY <1>2, <1>3

(* What a replica shows is determined by the updates it includes, however  *)
(* they reached it: counters count each once, sets hold what was added and *)
(* never removed, registers the last write.  Hence replicas that include   *)
(* the same updates agree, for any nodes, elements and stamps.             *)
THEOREM ReplicasConverge == Spec => []Converges
<1>1. IInv => Converges
  <2> SUFFICES ASSUME IInv, NEW n \in Node
               PROVE  /\ CounterValue(replica[n].counter) = Cardinality(Increments(seen[n]))
                      /\ replica[n].set.items = Items(seen[n])
                      /\ replica[n].register.value = LastWrite(seen[n])
    BY DEF Converges
  <2>1. Holds(replica[n], seen[n])
    BY DEF IInv
  <2>2. replica[n].set.items = Items(seen[n])
    BY <2>1 DEF Holds
  <2> QED
    BY <2>1, <2>2, CountsEachOnce, LastIsUnique
<1> QED
  BY <1>1, ReplicasHold, PTL

-----------------------------------------------------------------------------
(* Members                                                                 *)

LEMMA StoredStep ==
  ASSUME MembersInv, NEW n, NEW h \in Nat, NEW t \in Nat, h <= t \/ h = 0, Stored(n, h, t)
  PROVE  MembersInv'
<1>1. /\ n \in DOMAIN nodes
      /\ nodes' = [nodes EXCEPT ![n].last_heartbeat = h]
      /\ heard' = [heard EXCEPT ![n] = Larger(@, t)]
      /\ setback' = IF h = heard'[n] THEN setback \ {n} ELSE setback \cup {n}
      /\ UNCHANGED <<heartbeat_timeout_ms, now, given_up>>
  BY DEF Stored
<1>2. /\ DOMAIN heard = DOMAIN nodes /\ DOMAIN nodes' = DOMAIN nodes /\ DOMAIN heard' = DOMAIN heard
      /\ \A m \in DOMAIN nodes : m # n => nodes'[m] = nodes[m] /\ heard'[m] = heard[m]
      /\ nodes'[n] = [nodes[n] EXCEPT !.last_heartbeat = h]
      /\ heard'[n] = Larger(heard[n], t)
  BY <1>1 DEF MembersInv
<1>3. /\ nodes[n] \in [state : NodeStates, last_heartbeat : Nat] /\ heard[n] \in Nat
      /\ n \in given_up => nodes[n].state = "Offline"
  BY <1>1 DEF MembersInv
<1>4. /\ nodes'[n] \in [state : NodeStates, last_heartbeat : Nat]
      /\ nodes'[n].last_heartbeat = h /\ nodes'[n].state = nodes[n].state
      /\ heard'[n] \in Nat /\ h <= heard'[n]
  BY <1>2, <1>3 DEF Larger
<1>5. n \in setback' <=> h # heard'[n]
  BY <1>1
<1>6. \A m \in DOMAIN nodes : m # n => (m \in setback' <=> m \in setback)
  BY <1>1
<1>7. setback' \subseteq DOMAIN nodes' /\ given_up' \subseteq DOMAIN nodes'
  BY <1>1, <1>2 DEF MembersInv
<1>8. ASSUME NEW m \in DOMAIN nodes'
      PROVE  /\ nodes'[m] \in [state : NodeStates, last_heartbeat : Nat] /\ heard'[m] \in Nat
             /\ nodes'[m].last_heartbeat <= heard'[m]
             /\ m \in setback' <=> nodes'[m].last_heartbeat # heard'[m]
             /\ m \in given_up' => nodes'[m].state = "Offline"
  <2>1. CASE m = n
    BY <1>1, <1>3, <1>4, <1>5, <2>1
  <2>2. CASE m # n
    BY <1>1, <1>2, <1>6, <2>2 DEF MembersInv
  <2> QED
    BY <2>1, <2>2
<1> QED
  BY <1>1, <1>2, <1>7, <1>8 DEF MembersInv

LEMMA NextMembersInv ==
  ASSUME MembersInv, [Next]_vars
  PROVE  MembersInv'
<1> USE DEF MembersInv
<1>1. CASE UNCHANGED membervars
  BY <1>1 DEF membervars
<1>2. ASSUME NEW n \in Node, AddNode(n) PROVE MembersInv'
  <2>1. PICK info \in NewMembers :
          /\ nodes' = [m \in DOMAIN nodes \cup {n} |-> IF m = n THEN info ELSE nodes[m]]
          /\ setback' = IF info.last_heartbeat = now THEN setback ELSE setback \cup {n}
    BY <1>2 DEF AddNode
  <2>2. /\ n \notin DOMAIN nodes
        /\ heard' = [m \in DOMAIN nodes \cup {n} |-> IF m = n THEN now ELSE heard[m]]
        /\ UNCHANGED <<heartbeat_timeout_ms, now, given_up>>
    BY <1>2 DEF AddNode
  <2>3. info \in [state : NodeStates, last_heartbeat : Nat] /\ info.last_heartbeat <= now
    BY DEF NewMembers, NodeStates
  <2>4. n \notin setback /\ n \notin given_up
    BY <2>2
  <2> QED
    BY <2>1, <2>2, <2>3, <2>4
<1>3. ASSUME NEW n \in Node, RemoveNode(n) PROVE MembersInv'
  BY <1>3 DEF RemoveNode
<1>4. ASSUME NEW n \in Node, UpdateHeartbeat(n) PROVE MembersInv'
  <2> USE DEF MembersInv
  <2>1. now \in Nat /\ Stored(n, 0, now)
    BY <1>4 DEF UpdateHeartbeat
  <2> QED
    BY <2>1, StoredStep
<1>5. ASSUME NEW n \in Node, NEW time \in 1 .. now + 1, UpdateHeartbeatWithTime(n, time)
      PROVE  MembersInv'
  <2>1. time \in Nat /\ time <= time /\ Stored(n, time, time)
    BY <1>5 DEF UpdateHeartbeatWithTime
  <2> QED
    BY <2>1, StoredStep
<1>6. ASSUME NEW n \in Node, NEW state \in NodeStates, SetState(n, state) PROVE MembersInv'
  BY <1>6 DEF SetState
<1>7. CASE CheckTimeouts
  <2>1. /\ nodes' = [n \in DOMAIN nodes |->
              IF n \in TimedOut THEN [nodes[n] EXCEPT !.state = "Offline"] ELSE nodes[n]]
        /\ given_up' = given_up \cup TimedOut
        /\ UNCHANGED <<heartbeat_timeout_ms, now, heard, setback>>
    BY <1>7 DEF CheckTimeouts
  <2>2. TimedOut \subseteq DOMAIN nodes
    BY DEF TimedOut
  <2>3. "Offline" \in NodeStates
    BY DEF NodeStates
  <2> HIDE DEF MembersInv
  <2>4. DOMAIN nodes' = DOMAIN nodes
    BY <2>1
  <2>5. ASSUME NEW n \in DOMAIN nodes
        PROVE  /\ nodes'[n] \in [state : NodeStates, last_heartbeat : Nat]
               /\ nodes'[n].last_heartbeat = nodes[n].last_heartbeat
               /\ n \in given_up' => nodes'[n].state = "Offline"
    <3>1. nodes[n] \in [state : NodeStates, last_heartbeat : Nat]
      BY DEF MembersInv
    <3>2. CASE n \in TimedOut
      BY <2>1, <2>3, <3>1, <3>2
    <3>3. CASE n \notin TimedOut
      BY <2>1, <3>1, <3>3 DEF MembersInv
    <3> QED
      BY <3>2, <3>3
  <2>6. setback' = setback /\ heard' = heard
    BY <2>1
  <2> QED
    BY <2>1, <2>2, <2>4, <2>5, <2>6 DEF MembersInv
<1>8. ASSUME NEW timeout \in Timeouts, SetHeartbeatTimeout(timeout) PROVE MembersInv'
  <2>1. timeout \in Nat
    BY ClusterAssumption DEF ConstantsOK
  <2> QED
    BY <1>8, <2>1 DEF SetHeartbeatTimeout
<1>9. CASE Tick
  BY <1>9 DEF Tick
<1> HIDE DEF MembersInv
<1> QED
  BY <1>1, <1>2, <1>3, <1>4, <1>5, <1>6, <1>7, <1>8, <1>9
  DEF Next, MemberNext, vars

(* A member that was silent for longer than the timeout is found at the    *)
(* next check, no other but one whose heartbeat was set back, and one that *)
(* was found stays Offline until somebody sets its state (check_timeouts,  *)
(* update_heartbeat): for any members, timeouts and heartbeats.            *)
THEOREM MembersTracked == Spec => []MembersExact
<1>1. Init => MembersInv
  <2>1. DOMAIN <<>> = {}
    OBVIOUS
  <2> QED
    BY <2>1, ClusterAssumption DEF Init, MemberInit, MembersInv, ConstantsOK
<1>2. MembersInv /\ [Next]_vars => MembersInv'
  BY NextMembersInv
<1>3. MembersInv => MembersExact
  <2> SUFFICES ASSUME MembersInv PROVE MembersExact
    OBVIOUS
  <2> DEFINE Silent == {n \in DOMAIN nodes \ {Local} : Since(heard[n]) > heartbeat_timeout_ms}
  <2>1. ASSUME NEW n \in DOMAIN nodes
        PROVE  /\ nodes[n].last_heartbeat \in Nat /\ heard[n] \in Nat /\ now \in Nat
               /\ nodes[n].last_heartbeat <= heard[n] /\ heartbeat_timeout_ms \in Nat
               /\ Since(heard[n]) <= Since(nodes[n].last_heartbeat)
               /\ Since(heard[n]) \in Nat /\ Since(nodes[n].last_heartbeat) \in Nat
    BY DEF MembersInv, Since
  <2>2. \A n \in Silent : n \in TimedOut \/ nodes[n].state = "Offline"
    BY <2>1 DEF TimedOut
  <2>3. TimedOut \subseteq (Silent \cup setback) \ {Local}
    <3> SUFFICES ASSUME NEW n \in TimedOut, n \notin setback PROVE n \in Silent
      BY DEF TimedOut
    <3>1. n \in DOMAIN nodes \ {Local} /\ nodes[n].last_heartbeat = heard[n]
      BY DEF TimedOut, MembersInv
    <3> QED
      BY <3>1 DEF TimedOut
  <2>4. \A n \in given_up : nodes[n].state = "Offline" /\ n \notin TimedOut
    BY DEF MembersInv, TimedOut
  <2>5. \A n \in setback : nodes[n].last_heartbeat < heard[n]
    <3> TAKE n \in setback
    <3>1. n \in DOMAIN nodes /\ nodes[n].last_heartbeat # heard[n]
      BY DEF MembersInv
    <3> QED
      BY <2>1, <3>1
  <2> QED
    BY <2>2, <2>3, <2>4, <2>5 DEF MembersExact
<1> QED
  BY <1>1, <1>2, <1>3, PTL DEF Spec

-----------------------------------------------------------------------------
(* The socket table                                                        *)

LEMMA LeastSlot ==
  ASSUME NEW S, S \subseteq Nat, S # {}
  PROVE  Min(S) \in S
<1> DEFINE Less == {ss \in Nat \X Nat : ss[1] < ss[2]}
<1>1. IsWellFoundedOn(Less, Nat)
  BY NatLessThanWellFounded DEF OpToRel
<1>2. PICK x \in S : \A y \in S : ~(<<y, x>> \in Less)
  BY <1>1, WFMin
<1>3. ASSUME NEW y \in S PROVE x <= y
  <2>1. x \in Nat /\ y \in Nat
    OBVIOUS
  <2>2. y < x => <<y, x>> \in Less
    BY <2>1
  <2> QED
    BY <1>2, <2>1, <2>2
<1> HIDE DEF Less
<1> QED
  BY <1>3 DEF Min

(* An empty slot is neither an entry nor a socket. *)
LEMMA NoneIsNothing ==
  None \notin Meta /\ None \notin Socket
<1>1. DOMAIN None = {"none"}
  BY DEF None
<1>2. ASSUME NEW m \in Meta PROVE "fd" \in DOMAIN m
  BY DEF Meta
<1>3. ASSUME NEW s \in Socket PROVE "fd" \in DOMAIN s
  BY DEF Socket
<1> QED
  BY <1>1, <1>2, <1>3

(* What the types say of one thread and of one slot. *)
LEMMA CallTypes ==
  ASSUME TableTypeOK, NEW t \in Threads
  PROVE  /\ call[t].op \in {"idle", "create", "close", "get", "use"}
         /\ call[t].op = "idle" => call[t] = Idle
         /\ call[t].op # "idle" => call[t].slot \in Slots
         /\ call[t].op \in {"create", "get", "use"} => call[t].fd \in Nat
         /\ call[t].op = "create" => call[t].type \in SocketType
         /\ call[t].op = "get" => [call[t] EXCEPT !.op = "use"] \in TableCalls
<1>1. call[t] \in TableCalls
  BY DEF TableTypeOK
<1>2. CASE call[t] = Idle
  BY <1>2 DEF Idle
<1>3. CASE call[t] \in [op : {"create"}, slot : Slots, fd : Nat, type : SocketType]
  BY <1>3
<1>4. CASE call[t] \in [op : {"close"}, slot : Slots]
  BY <1>4
<1>5. CASE call[t] \in [op : {"get", "use"}, slot : Slots, fd : Nat]
  <2>1. [call[t] EXCEPT !.op = "use"] \in [op : {"get", "use"}, slot : Slots, fd : Nat]
    BY <1>5
  <2> QED
    BY <1>5, <2>1 DEF TableCalls
<1> QED
  BY <1>1, <1>2, <1>3, <1>4, <1>5 DEF TableCalls

LEMMA SlotTypes ==
  ASSUME TableTypeOK, NEW i \in Slots
  PROVE  /\ metas[i] # None => metas[i] \in Meta /\ metas[i].fd \in Nat
         /\ protocols[i] # None => protocols[i] \in Socket
         /\ i \in Nat
<1>1. MAX_SOCKETS \in Nat
  BY NetworkAssumption
<1> QED
  BY <1>1 DEF TableTypeOK, Slots, Meta

(* A call of a socket leaves its type and descriptor, and buffers that     *)
(* agree with its state.                                                   *)
LEMMA UsedKeeps ==
  ASSUME NEW s \in Socket, Sane(s), NEW u \in Used(s)
  PROVE  u \in Socket /\ Sane(u) /\ u.type = s.type /\ u.fd = s.fd
<1>1. /\ s.type \in SocketType /\ s.fd \in Nat /\ s.state \in SocketState
      /\ s.send_buffer \in Nat /\ s.packets \in Seq(Lengths \X Addrs) /\ s.connected \in BOOLEAN
  BY DEF Socket
<1>2. Lengths \subseteq Nat /\ NoAddr \notin Addrs
  BY NetworkAssumption DEF NoAddr
<1>3. ASSUME NEW a \in Addrs, u = Bind(s, a)
      PROVE  u \in Socket /\ Sane(u) /\ u.type = s.type /\ u.fd = s.fd
  BY <1>1, <1>2, <1>3 DEF Bind, Socket, Sane, SocketState
<1>4. ASSUME NEW a \in Addrs, u = Connect(s, a)
      PROVE  u \in Socket /\ Sane(u) /\ u.type = s.type /\ u.fd = s.fd
  BY <1>1, <1>2, <1>4 DEF Connect, IsTcp, Socket, Sane, SocketState
<1>5. ASSUME NEW n \in Lengths, u = SendData(s, n)
      PROVE  u \in Socket /\ Sane(u) /\ u.type = s.type /\ u.fd = s.fd
  BY <1>1, <1>2, <1>5 DEF SendData, IsTcp, Socket, Sane
<1>6. ASSUME NEW n \in Lengths, NEW a \in Addrs, u = SendTo(s, n, a)
      PROVE  u \in Socket /\ Sane(u) /\ u.type = s.type /\ u.fd = s.fd
  <2>1. Append(s.packets, <<n, a>>) \in Seq(Lengths \X Addrs)
    BY <1>1
  <2> QED
    BY <1>1, <1>6, <2>1 DEF SendTo, IsTcp, Socket, Sane, SocketType
<1>7. CASE u = RecvFrom(s)
  <2>1. s.packets # <<>> => Tail(s.packets) \in Seq(Lengths \X Addrs)
    BY <1>1
  <2> QED
    BY <1>1, <1>7, <2>1 DEF RecvFrom, IsTcp, Socket, Sane, SocketType
<1>8. CASE u = Listen(s)
  BY <1>1, <1>8 DEF Listen, IsTcp, Socket, Sane, SocketState
<1>9. CASE u = Shutdown(s)
  <2>1. CASE ~IsTcp(s)
    BY <1>9, <2>1 DEF Shutdown
  <2>2. CASE IsTcp(s)
    <3>1. u = [s EXCEPT !.connected = FALSE, !.send_buffer = 0]
      BY <1>9, <2>2 DEF Shutdown
    <3>2. u \in Socket
      BY <3>1 DEF Socket
    <3>3. /\ u.type = s.type /\ u.fd = s.fd /\ u.state = s.state /\ u.packets = s.packets
          /\ u.local_addr = s.local_addr /\ ~u.connected /\ u.send_buffer = 0
      BY <3>1 DEF Socket
    <3> QED
      BY <3>2, <3>3 DEF Sane
  <2> QED
    BY <2>1, <2>2
<1>10. CASE u = CloseSocket(s)
  <2>1. u = [s EXCEPT !.state = "Closed", !.connected = FALSE, !.send_buffer = 0, !.packets = <<>>]
    BY <1>10 DEF CloseSocket
  <2>2. <<>> \in Seq(Lengths \X Addrs)
    OBVIOUS
  <2>3. u \in Socket
    BY <2>1, <2>2 DEF Socket, SocketState
  <2>4. /\ u.type = s.type /\ u.fd = s.fd /\ u.state = "Closed" /\ u.packets = <<>>
        /\ ~u.connected /\ u.send_buffer = 0
    BY <2>1 DEF Socket
  <2> QED
    BY <2>3, <2>4 DEF Sane
<1> QED
  BY <1>3, <1>4, <1>5, <1>6, <1>7, <1>8, <1>9, <1>10 DEF Used

(* create takes a free slot, which nobody has looked up.                   *)
LEMMA CreateTakesSlotInv ==
  ASSUME TableInv, NEW t \in Threads, NEW type \in SocketType, CreateTakesSlot(t, type)
  PROVE  TableInv'
<1> DEFINE slot == Min({i \in Slots : metas[i] = None})
           meta == [fd |-> next_fd, socket_type |-> type, state |-> "Created"]
           new == [op |-> "create", slot |-> slot, fd |-> next_fd, type |-> type]
<1> USE DEF TableInv
<1>1. slot \in Slots /\ metas[slot] = None
  <2> DEFINE free == {i \in Slots : metas[i] = None}
  <2>1. MAX_SOCKETS \in Nat /\ Slots \subseteq Nat
    BY NetworkAssumption DEF Slots
  <2>2. CASE free = {}
    <3>1. {i \in Slots : metas[i] # None} = Slots
      BY <2>2
    <3>2. Cardinality(Slots) = MAX_SOCKETS
      BY <2>1, FS_Interval DEF Slots
    <3>3. Cardinality({i \in Slots : metas[i] # None}) < MAX_SOCKETS
      BY DEF CreateTakesSlot, Count
    <3>4. MAX_SOCKETS < MAX_SOCKETS
      BY <3>1, <3>2, <3>3
    <3> QED
      BY <2>1, <3>4
  <2>3. free # {} => Min(free) \in free
    BY <2>1, LeastSlot
  <2> QED
    BY <2>2, <2>3
<1>2. /\ call[t] = Idle /\ metas_lock = Nobody /\ metas_lock' = t /\ next_fd' = next_fd + 1
      /\ metas' = [metas EXCEPT ![slot] = meta] /\ call' = [call EXCEPT ![t] = new]
      /\ maker' = [fd \in DOMAIN maker \cup {next_fd} |-> IF fd = next_fd THEN t ELSE maker[fd]]
      /\ protocols' = protocols /\ guards' = guards /\ careful' = careful
  BY DEF CreateTakesSlot
<1> HIDE DEF slot
<1>3. /\ next_fd \in Nat /\ Nobody \notin Threads /\ call[t].op = "idle" /\ meta \in Meta /\ meta # None
      /\ DOMAIN maker = 0 .. next_fd - 1
  <2>1. meta \in Meta
    BY DEF TableTypeOK, Meta
  <2> QED
    BY <1>2, <2>1, NoneIsNothing, NetworkAssumption DEF TableTypeOK, Nobody, Idle
<1>4. new \in TableCalls
  BY <1>1, <1>3 DEF TableCalls
<1>5. /\ metas'[slot] = meta /\ call'[t] = new
      /\ \A i \in Slots : i # slot => metas'[i] = metas[i]
      /\ \A u \in Threads : u # t => call'[u] = call[u]
  BY <1>1, <1>2 DEF TableTypeOK
<1>6. \A i \in Slots : Agree(i)
  BY <1>2, <1>3 DEF OthersAgree
<1>7. TableTypeOK'
  <2>1. metas' \in [Slots -> Meta \cup {None}] /\ call' \in [Threads -> TableCalls]
    BY <1>1, <1>2, <1>3, <1>4 DEF TableTypeOK
  <2>2. next_fd' \in Nat /\ DOMAIN maker' = 0 .. next_fd' - 1
    BY <1>2, <1>3
  <2> QED
    BY <1>2, <2>1, <2>2 DEF TableTypeOK
<1>8. LockHeld'
  BY <1>2, <1>3, <1>5 DEF LockHeld
<1>9. OthersAgree'
  BY <1>2, <1>5, <1>6 DEF OthersAgree, Agree
<1>10. FdsUnique'
  <2> SUFFICES ASSUME NEW i \in Slots, NEW j \in Slots, metas'[i] # None
               PROVE  metas'[i].fd < next_fd' /\ (metas'[j] # None /\ metas'[j].fd = metas'[i].fd => j = i)
    BY DEF FdsUnique
  <2>1. \A k \in Slots : metas[k] # None => metas[k].fd \in Nat /\ metas[k].fd < next_fd
    BY SlotTypes DEF FdsUnique
  <2>2. meta.fd = next_fd
    OBVIOUS
  <2> QED
    BY <1>2, <1>3, <1>5, <2>1, <2>2 DEF FdsUnique
<1>11. GuardsUsed'
  BY <1>2, <1>3, <1>5 DEF GuardsUsed
<1>12. AllSane'
  BY <1>2 DEF AllSane
<1>13. ASSUME NEW u \in Threads PROVE (metas_lock' = u => Changing(u)') /\ (careful' => OwnKept(u)')
  <2>1. CASE u = t
    BY <1>1, <1>2, <1>5, <1>6, <2>1 DEF Changing, OwnKept, Agree
  <2>2. CASE u # t
    <3>1. OwnKept(u) => OwnKept(u)'
      <4> SUFFICES ASSUME OwnKept(u), call[u].op \in {"get", "use"} PROVE OwnKept(u)'
        BY <1>5, <2>2 DEF OwnKept
      <4>1. call[u].slot \in Slots /\ call[u].slot # slot /\ call[u].fd \in Nat /\ call[u].fd < next_fd
        BY <1>1, CallTypes DEF OwnKept
      <4>2. call[u].fd \in DOMAIN maker /\ maker'[call[u].fd] = maker[call[u].fd]
        BY <1>2, <1>3, <4>1
      <4> QED
        BY <1>2, <1>3, <1>5, <2>2, <4>1, <4>2 DEF OwnKept
    <3> QED
      BY <1>2, <2>2, <3>1
  <2> QED
    BY <2>1, <2>2
<1> QED
  BY <1>7, <1>8, <1>9, <1>10, <1>11, <1>12, <1>13

(* What create has taken it fills, before anybody sees it. *)
LEMMA CreateStoresInv ==
  ASSUME TableInv, NEW t \in Threads, CreateStores(t)
  PROVE  TableInv'
<1> DEFINE slot == call[t].slot
           socket == NewSocket(call[t].type, call[t].fd)
<1> USE DEF TableInv
<1>1. /\ call[t].op = "create" /\ metas_lock' = Nobody /\ call' = [call EXCEPT ![t] = Idle]
      /\ protocols' = [protocols EXCEPT ![slot] = socket]
      /\ metas' = metas /\ next_fd' = next_fd /\ guards' = guards /\ maker' = maker /\ careful' = careful
  BY DEF CreateStores
<1>2. slot \in Slots /\ call[t].fd \in Nat /\ call[t].type \in SocketType /\ Nobody \notin Threads
  BY <1>1, CallTypes, NetworkAssumption DEF Nobody
<1>3. socket \in Socket /\ socket # None
  <2>1. <<>> \in Seq(Lengths \X Addrs)
    OBVIOUS
  <2>2. socket \in Socket
    BY <1>2, <2>1 DEF NewSocket, Socket, SocketState
  <2> QED
    BY <2>2, NoneIsNothing
<1>4. Sane(socket) /\ socket.type = call[t].type /\ socket.fd = call[t].fd
  BY DEF NewSocket, Sane
<1>5. /\ metas_lock = t /\ protocols[slot] = None
      /\ metas[slot] = [fd |-> call[t].fd, socket_type |-> call[t].type, state |-> "Created"]
      /\ metas[slot] # None
  <2>1. metas_lock = t
    BY <1>1 DEF LockHeld
  <2>2. [fd |-> call[t].fd, socket_type |-> call[t].type, state |-> "Created"] \in Meta
    BY <1>2 DEF Meta
  <2> QED
    BY <1>1, <2>1, <2>2, NoneIsNothing DEF Changing
<1> HIDE DEF slot, socket
<1>6. /\ protocols'[slot] = socket /\ call'[t] = Idle /\ Idle.op = "idle"
      /\ \A i \in Slots : i # slot => protocols'[i] = protocols[i]
      /\ \A u \in Threads : u # t => call'[u] = call[u]
  BY <1>1, <1>2 DEF TableTypeOK, Idle
<1>7. TableTypeOK'
  <2>1. protocols' \in [Slots -> Socket \cup {None}] /\ call' \in [Threads -> TableCalls]
    BY <1>1, <1>2, <1>3 DEF TableTypeOK, TableCalls
  <2> QED
    BY <1>1, <2>1 DEF TableTypeOK
<1>8. LockHeld'
  BY <1>1, <1>2, <1>5, <1>6 DEF LockHeld
<1>9. OthersAgree'
  <2> SUFFICES ASSUME NEW i \in Slots PROVE Agree(i)'
    BY DEF OthersAgree
  <2>1. CASE i = slot
    BY <1>1, <1>3, <1>4, <1>5, <1>6, <2>1 DEF Agree
  <2>2. CASE i # slot
    <3>1. Agree(i)
      BY <1>5, <2>2 DEF OthersAgree, slot
    <3> QED
      BY <1>1, <1>6, <2>2, <3>1 DEF Agree
  <2> QED
    BY <2>1, <2>2
<1>10. FdsUnique'
  BY <1>1 DEF FdsUnique
<1>11. GuardsUsed'
  BY <1>1, <1>6 DEF GuardsUsed
<1>12. AllSane'
  BY <1>4, <1>6 DEF AllSane
<1>13. ASSUME NEW u \in Threads PROVE (metas_lock' = u => Changing(u)') /\ (careful' => OwnKept(u)')
  <2>1. OwnKept(u) => OwnKept(u)'
    BY <1>1, <1>6 DEF OwnKept
  <2> QED
    BY <1>1, <1>2, <2>1
<1> QED
  BY <1>7, <1>8, <1>9, <1>10, <1>11, <1>12, <1>13

(* The slot close gives up is nobody else's, if threads are careful. *)
LEMMA CloseFindsInv ==
  ASSUME TableInv, NEW t \in Threads, NEW fd \in Nat, CloseFinds(t, fd)
  PROVE  TableInv'
<1> USE DEF TableInv
<1>1. PICK slot \in SlotOf(fd) :
        /\ metas' = [metas EXCEPT ![slot] = None]
        /\ call' = [call EXCEPT ![t] = [op |-> "close", slot |-> slot]]
  BY DEF CloseFinds
<1>2. /\ call[t] = Idle /\ metas_lock = Nobody /\ MayUse(t, fd) /\ metas_lock' = t
      /\ protocols' = protocols /\ next_fd' = next_fd /\ guards' = guards /\ maker' = maker
      /\ careful' = careful
  BY DEF CloseFinds
<1>3. slot \in Slots /\ metas[slot] # None /\ metas[slot].fd = fd
  BY DEF SlotOf
<1> DEFINE new == [op |-> "close", slot |-> slot]
<1>4. Nobody \notin Threads /\ call[t].op = "idle" /\ new \in TableCalls
  BY <1>2, <1>3, NetworkAssumption DEF Nobody, Idle, TableCalls
<1>5. /\ metas'[slot] = None /\ call'[t] = new
      /\ \A i \in Slots : i # slot => metas'[i] = metas[i]
      /\ \A u \in Threads : u # t => call'[u] = call[u]
  BY <1>1, <1>3 DEF TableTypeOK
<1>6. \A i \in Slots : Agree(i)
  BY <1>2, <1>4 DEF OthersAgree
<1>7. TableTypeOK'
  <2>1. metas' \in [Slots -> Meta \cup {None}] /\ call' \in [Threads -> TableCalls]
    BY <1>1, <1>4 DEF TableTypeOK
  <2> QED
    BY <1>2, <2>1 DEF TableTypeOK
<1>8. LockHeld'
  BY <1>2, <1>4, <1>5 DEF LockHeld
<1>9. OthersAgree'
  BY <1>2, <1>5, <1>6 DEF OthersAgree, Agree
<1>10. FdsUnique'
  BY <1>2, <1>5 DEF FdsUnique
<1>11. GuardsUsed'
  BY <1>2, <1>4, <1>5 DEF GuardsUsed
<1>12. AllSane'
  BY <1>2 DEF AllSane
<1>13. ASSUME NEW u \in Threads PROVE (metas_lock' = u => Changing(u)') /\ (careful' => OwnKept(u)')
  <2>1. CASE u = t
    BY <1>2, <1>3, <1>5, <2>1 DEF Changing, OwnKept
  <2>2. CASE u # t
    <3>1. ASSUME careful, OwnKept(u), call[u].op \in {"get", "use"} PROVE OwnKept(u)'
      <4>1. call[u].slot # slot /\ call[u].slot \in Slots
        BY <1>2, <1>3, <2>2, <3>1, CallTypes DEF OwnKept, MayUse
      <4> QED
        BY <1>2, <1>5, <2>2, <3>1, <4>1 DEF OwnKept
    <3>2. call[u].op \notin {"get", "use"} => OwnKept(u)'
      BY <1>5, <2>2 DEF OwnKept
    <3> QED
      BY <1>2, <2>2, <3>1, <3>2
  <2> QED
    BY <2>1, <2>2
<1> QED
  BY <1>7, <1>8, <1>9, <1>10, <1>11, <1>12, <1>13

(* What close has given up it empties. *)
LEMMA CloseClearsInv ==
  ASSUME TableInv, NEW t \in Threads, CloseClears(t)
  PROVE  TableInv'
<1> DEFINE slot == call[t].slot
<1> USE DEF TableInv
<1>1. /\ call[t].op = "close" /\ metas_lock' = Nobody /\ call' = [call EXCEPT ![t] = Idle]
      /\ protocols' = [protocols EXCEPT ![slot] = None]
      /\ metas' = metas /\ next_fd' = next_fd /\ guards' = guards /\ maker' = maker /\ careful' = careful
  BY DEF CloseClears
<1>2. slot \in Slots /\ Nobody \notin Threads
  BY <1>1, CallTypes, NetworkAssumption DEF Nobody
<1>3. metas_lock = t /\ metas[slot] = None
  BY <1>1 DEF LockHeld, Changing
<1> HIDE DEF slot
<1>4. /\ protocols'[slot] = None /\ call'[t] = Idle /\ Idle.op = "idle"
      /\ \A i \in Slots : i # slot => protocols'[i] = protocols[i]
      /\ \A u \in Threads : u # t => call'[u] = call[u]
  BY <1>1, <1>2 DEF TableTypeOK, Idle
<1>5. TableTypeOK'
  <2>1. protocols' \in [Slots -> Socket \cup {None}] /\ call' \in [Threads -> TableCalls]
    BY <1>1 DEF TableTypeOK, TableCalls
  <2> QED
    BY <1>1, <2>1 DEF TableTypeOK
<1>6. LockHeld'
  BY <1>1, <1>2, <1>3, <1>4 DEF LockHeld
<1>7. OthersAgree'
  <2> SUFFICES ASSUME NEW i \in Slots PROVE Agree(i)'
    BY DEF OthersAgree
  <2>1. CASE i = slot
    BY <1>1, <1>3, <1>4, <2>1 DEF Agree
  <2>2. CASE i # slot
    <3>1. Agree(i)
      BY <1>3, <2>2 DEF OthersAgree, slot
    <3> QED
      BY <1>1, <1>4, <2>2, <3>1 DEF Agree
  <2> QED
    BY <2>1, <2>2
<1>8. FdsUnique'
  BY <1>1 DEF FdsUnique
<1>9. GuardsUsed'
  BY <1>1, <1>4 DEF GuardsUsed
<1>10. AllSane'
  BY <1>4 DEF AllSane
<1>11. ASSUME NEW u \in Threads PROVE (metas_lock' = u => Changing(u)') /\ (careful' => OwnKept(u)')
  <2>1. OwnKept(u) => OwnKept(u)'
    BY <1>1, <1>4 DEF OwnKept
  <2> QED
    BY <1>1, <1>2, <2>1
<1> QED
  BY <1>5, <1>6, <1>7, <1>8, <1>9, <1>10, <1>11

(* The steps of a call that keeps a guard: none changes an entry. *)
LEMMA GetProtocolFindsInv ==
  ASSUME TableInv, NEW t \in Threads, NEW fd \in Nat, GetProtocolFinds(t, fd)
  PROVE  TableInv'
<1> USE DEF TableInv
<1>1. PICK slot \in SlotOf(fd) : call' = [call EXCEPT ![t] = [op |-> "get", slot |-> slot, fd |-> fd]]
  BY DEF GetProtocolFinds
<1>2. /\ call[t] = Idle /\ metas_lock = Nobody /\ MayUse(t, fd) /\ metas' = metas
      /\ protocols' = protocols /\ next_fd' = next_fd /\ metas_lock' = metas_lock
      /\ guards' = guards /\ maker' = maker /\ careful' = careful
  BY DEF GetProtocolFinds
<1>3. slot \in Slots /\ metas[slot] # None /\ metas[slot].fd = fd
  BY DEF SlotOf
<1> DEFINE new == [op |-> "get", slot |-> slot, fd |-> fd]
<1>4. Nobody \notin Threads /\ call[t].op = "idle" /\ new \in TableCalls
  BY <1>2, <1>3, NetworkAssumption DEF Nobody, Idle, TableCalls
<1>5. call'[t] = new /\ \A u \in Threads : u # t => call'[u] = call[u]
  BY <1>1 DEF TableTypeOK
<1>6. TableTypeOK'
  BY <1>1, <1>2, <1>4 DEF TableTypeOK
<1>7. LockHeld'
  BY <1>2, <1>4, <1>5 DEF LockHeld
<1>8. OthersAgree'
  BY <1>2, <1>4 DEF OthersAgree, Agree
<1>9. FdsUnique'
  BY <1>2 DEF FdsUnique
<1>10. GuardsUsed'
  BY <1>2, <1>4, <1>5 DEF GuardsUsed
<1>11. AllSane'
  BY <1>2 DEF AllSane
<1>12. ASSUME NEW u \in Threads PROVE (metas_lock' = u => Changing(u)') /\ (careful' => OwnKept(u)')
  <2>1. CASE u = t
    BY <1>2, <1>3, <1>4, <1>5, <2>1 DEF OwnKept, MayUse, FdsUnique
  <2>2. CASE u # t
    BY <1>2, <1>4, <1>5, <2>2 DEF OwnKept
  <2> QED
    BY <2>1, <2>2
<1> QED
  BY <1>6, <1>7, <1>8, <1>9, <1>10, <1>11, <1>12

LEMMA GetProtocolLocksInv ==
  ASSUME TableInv, NEW t \in Threads, GetProtocolLocks(t)
  PROVE  TableInv'
<1> DEFINE slot == call[t].slot
           new == [call[t] EXCEPT !.op = "use"]
<1> USE DEF TableInv
<1>1. /\ call[t].op = "get" /\ guards[slot] = Nobody /\ guards' = [guards EXCEPT ![slot] = t]
      /\ call' = [call EXCEPT ![t] = new]
      /\ metas' = metas /\ protocols' = protocols /\ next_fd' = next_fd /\ metas_lock' = metas_lock
      /\ maker' = maker /\ careful' = careful
  BY DEF GetProtocolLocks
<1>2. /\ slot \in Slots /\ Nobody \notin Threads /\ new \in TableCalls
      /\ new.op = "use" /\ new.slot = slot /\ new.fd = call[t].fd
  <2>1. call[t] \in [op : {"get", "use"}, slot : Slots, fd : Nat]
    BY <1>1 DEF TableTypeOK, TableCalls, Idle
  <2> QED
    BY <1>1, <2>1, CallTypes, NetworkAssumption DEF Nobody
<1> HIDE DEF slot, new
<1>3. /\ call'[t] = new /\ guards'[slot] = t
      /\ \A u \in Threads : u # t => call'[u] = call[u]
      /\ \A i \in Slots : i # slot => guards'[i] = guards[i]
  BY <1>1, <1>2 DEF TableTypeOK
<1>4. TableTypeOK'
  BY <1>1, <1>2 DEF TableTypeOK
<1>5. LockHeld'
  BY <1>1, <1>2, <1>3 DEF LockHeld
<1>6. metas_lock # t
  BY <1>1 DEF LockHeld
<1>7. OthersAgree'
  BY <1>1, <1>3, <1>6 DEF OthersAgree, Agree
<1>8. FdsUnique'
  BY <1>1 DEF FdsUnique
<1>9. GuardsUsed'
  BY <1>1, <1>2, <1>3 DEF GuardsUsed, slot
<1>10. AllSane'
  BY <1>1 DEF AllSane
<1>11. ASSUME NEW u \in Threads PROVE (metas_lock' = u => Changing(u)') /\ (careful' => OwnKept(u)')
  <2>1. CASE u = t
    BY <1>1, <1>2, <1>3, <1>6, <2>1 DEF OwnKept, slot
  <2>2. CASE u # t
    BY <1>1, <1>3, <2>2 DEF OwnKept, Changing
  <2> QED
    BY <2>1, <2>2
<1> QED
  BY <1>4, <1>5, <1>7, <1>8, <1>9, <1>10, <1>11

LEMMA UseSocketInv ==
  ASSUME TableInv, NEW t \in Threads, UseSocket(t)
  PROVE  TableInv'
<1> DEFINE slot == call[t].slot
<1> USE DEF TableInv
<1>1. PICK s \in Used(protocols[slot]) : protocols' = [protocols EXCEPT ![slot] = s]
  BY DEF UseSocket
<1>2. /\ call[t].op = "use" /\ protocols[slot] # None
      /\ metas' = metas /\ next_fd' = next_fd /\ metas_lock' = metas_lock /\ guards' = guards
      /\ call' = call /\ maker' = maker /\ careful' = careful
  BY DEF UseSocket
<1>3. slot \in Slots
  BY <1>2, CallTypes
<1> HIDE DEF slot
<1>4. /\ s \in Socket /\ Sane(s) /\ s # None
      /\ s.type = protocols[slot].type /\ s.fd = protocols[slot].fd
  <2>1. protocols[slot] \in Socket /\ Sane(protocols[slot])
    BY <1>2, <1>3, SlotTypes DEF AllSane
  <2> QED
    BY <1>1, <2>1, UsedKeeps, NoneIsNothing
<1>5. protocols'[slot] = s /\ \A i \in Slots : i # slot => protocols'[i] = protocols[i]
  BY <1>1, <1>3 DEF TableTypeOK
<1>6. TableTypeOK'
  BY <1>1, <1>2, <1>3, <1>4 DEF TableTypeOK
<1>7. LockHeld' /\ FdsUnique' /\ GuardsUsed'
  BY <1>2 DEF LockHeld, FdsUnique, GuardsUsed
<1>8. OthersAgree'
  BY <1>2, <1>4, <1>5 DEF OthersAgree, Agree
<1>9. AllSane'
  BY <1>4, <1>5 DEF AllSane
<1>10. ASSUME NEW u \in Threads PROVE (metas_lock' = u => Changing(u)') /\ (careful' => OwnKept(u)')
  <2>1. call[u].op # "idle" => call[u].slot \in Slots
    BY CallTypes
  <2> QED
    BY <1>2, <1>5, <2>1 DEF Changing, OwnKept
<1> QED
  BY <1>6, <1>7, <1>8, <1>9, <1>10

LEMMA DropGuardInv ==
  ASSUME TableInv, NEW t \in Threads, DropGuard(t)
  PROVE  TableInv'
<1> DEFINE slot == call[t].slot
<1> USE DEF TableInv
<1>1. /\ call[t].op = "use" /\ guards' = [guards EXCEPT ![slot] = Nobody]
      /\ call' = [call EXCEPT ![t] = Idle]
      /\ metas' = metas /\ protocols' = protocols /\ next_fd' = next_fd /\ metas_lock' = metas_lock
      /\ maker' = maker /\ careful' = careful
  BY DEF DropGuard
<1>2. slot \in Slots /\ Nobody \notin Threads
  BY <1>1, CallTypes, NetworkAssumption DEF Nobody
<1> HIDE DEF slot
<1>3. /\ call'[t] = Idle /\ Idle.op = "idle" /\ guards'[slot] = Nobody
      /\ \A u \in Threads : u # t => call'[u] = call[u]
      /\ \A i \in Slots : i # slot => guards'[i] = guards[i]
  BY <1>1, <1>2 DEF TableTypeOK, Idle
<1>4. TableTypeOK'
  BY <1>1, <1>2 DEF TableTypeOK, TableCalls
<1>5. LockHeld'
  BY <1>1, <1>3 DEF LockHeld
<1>6. metas_lock # t
  BY <1>1 DEF LockHeld
<1>7. OthersAgree'
  BY <1>1, <1>3, <1>6 DEF OthersAgree, Agree
<1>8. FdsUnique'
  BY <1>1 DEF FdsUnique
<1>9. GuardsUsed'
  <2>1. guards[slot] = t
    BY <1>1, <1>2 DEF GuardsUsed, slot
  <2>2. \A i \in Slots : i # slot => guards[i] # t
    BY <1>1 DEF GuardsUsed, slot
  <2>3. \A u \in Threads : u # t => ~(call[u].op = "use" /\ call[u].slot = slot)
    BY <1>2, <2>1 DEF GuardsUsed
  <2> QED
    BY <1>1, <1>2, <1>3, <2>1, <2>2, <2>3 DEF GuardsUsed
<1>10. AllSane'
  BY <1>1 DEF AllSane
<1>11. ASSUME NEW u \in Threads PROVE (metas_lock' = u => Changing(u)') /\ (careful' => OwnKept(u)')
  <2>1. CASE u = t
    BY <1>1, <1>3, <1>6, <2>1 DEF OwnKept
  <2>2. CASE u # t
    BY <1>1, <1>3, <2>2 DEF OwnKept, Changing
  <2> QED
    BY <2>1, <2>2
<1> QED
  BY <1>4, <1>5, <1>7, <1>8, <1>9, <1>10, <1>11

LEMMA TableInitInv ==
  TableInit => TableInv
<1> SUFFICES ASSUME TableInit PROVE TableInv
  OBVIOUS
<1>1. 0 .. 0 - 1 = {} /\ DOMAIN <<>> = {} /\ Nobody \notin Threads /\ Idle.op = "idle"
  BY NetworkAssumption DEF Nobody, Idle
<1>2. TableTypeOK
  BY <1>1 DEF TableInit, TableTypeOK, TableCalls
<1>3. LockHeld /\ OthersAgree /\ FdsUnique /\ GuardsUsed /\ AllSane
  BY <1>1 DEF TableInit, LockHeld, OthersAgree, Agree, FdsUnique, GuardsUsed, AllSane
<1>4. \A t \in Threads : metas_lock # t /\ OwnKept(t)
  BY <1>1 DEF TableInit, OwnKept
<1> QED
  BY <1>2, <1>3, <1>4 DEF TableInv

LEMMA TableNextInv ==
  TableInv /\ [TableNext]_tablevars => TableInv'
<1> SUFFICES ASSUME TableInv, [TableNext]_tablevars PROVE TableInv'
  OBVIOUS
<1>1. CASE UNCHANGED tablevars
  BY <1>1 DEF tablevars, TableInv, TableTypeOK, LockHeld, OthersAgree, Agree, FdsUnique, GuardsUsed,
              AllSane, Changing, OwnKept
<1>2. 0 .. MaxFds - 1 \subseteq Nat
  BY NetworkAssumption
<1> QED
  BY <1>1, <1>2, CreateTakesSlotInv, CreateStoresInv, CloseFindsInv, CloseClearsInv, GetProtocolFindsInv,
     GetProtocolLocksInv, UseSocketInv, DropGuardInv DEF TableNext

(* However many threads create, look up, use and close however many        *)
(* sockets: between calls both arrays of the table agree, every guard is   *)
(* one thread's, sockets have in their buffers what their state allows,    *)
(* and careful threads get the guard of the descriptor they asked for      *)
(* (SocketTable::create, close, get_protocol).                             *)
THEOREM SocketsHold == TableSpec => []SocketTableExact
<1>1. TableInv => SocketTableExact
  <2> SUFFICES ASSUME TableInv PROVE SocketTableExact
    OBVIOUS
  <2> USE DEF TableInv
  <2>1. Nobody \notin Threads
    BY NetworkAssumption DEF Nobody
  <2>2. SlotsAgree
    <3>1. ASSUME metas_lock = Nobody, NEW i \in Slots
          PROVE  Agree(i) /\ (metas[i] # None => SlotOf(metas[i].fd) = {i})
      BY <2>1, <3>1 DEF OthersAgree, SlotOf, FdsUnique
    <3>2. ASSUME NEW i \in Slots
          PROVE  {t \in Threads : call[t].op = "use" /\ call[t].slot = i} = {guards[i]} \ {Nobody}
      <4>1. guards[i] \in Threads \cup {Nobody}
        BY DEF TableTypeOK
      <4> QED
        BY <2>1, <4>1 DEF GuardsUsed
    <3> QED
      BY <3>1, <3>2 DEF SlotsAgree
  <2>3. SocketsSane
    BY DEF SocketsSane, AllSane, Sane, AcceptPanics
  <2>4. ASSUME careful, NEW t \in Threads, call[t].op = "use", protocols[call[t].slot] # None
        PROVE  protocols[call[t].slot].fd = call[t].fd
    <3>1. /\ call[t].slot \in Slots /\ metas[call[t].slot] # None
          /\ metas[call[t].slot].fd = call[t].fd
      BY <2>4, CallTypes DEF OwnKept
    <3>2. \A u \in Threads : metas_lock = u => call[u].slot # call[t].slot
      BY <2>4, <3>1 DEF Changing
    <3> QED
      BY <3>1, <3>2 DEF OthersAgree, Agree
  <2> QED
    BY <2>2, <2>3, <2>4 DEF SocketTableExact, GuardIsOwn
<1> QED
  BY <1>1, TableInitInv, TableNextInv, PTL DEF TableSpec

-----------------------------------------------------------------------------
(* The soft bus                                                            *)

(* A set of natural numbers that is not empty has a least one. *)
LEMMA LeastNumber ==
  ASSUME NEW S, S \subseteq Nat, S # {}
  PROVE  \E x \in S : \A y \in S : x <= y
<1> DEFINE Less == {ss \in Nat \X Nat : ss[1] < ss[2]}
<1>1. IsWellFoundedOn(Less, Nat)
  BY NatLessThanWellFounded DEF OpToRel
<1>2. PICK x \in S : \A y \in S : ~(<<y, x>> \in Less)
  BY <1>1, WFMin
<1>3. ASSUME NEW y \in S PROVE x <= y
  <2>1. x \in Nat /\ y \in Nat
    OBVIOUS
  <2>2. y < x => <<y, x>> \in Less
    BY <2>1
  <2> QED BY <1>2, <2>1, <2>2
<1> QED BY <1>3

(* The messages that are counted and not queued are finitely many. *)
LEMMA UnderWayIsNat ==
  UnderWay \in Nat /\ IsFiniteSet({t \in BusThreads : sending[t].pc = "queue"})
<1>1. IsFiniteSet({t \in BusThreads : sending[t].pc = "queue"})
  BY BusAssumption, FS_Subset
<1> QED
  BY <1>1, FS_CardinalityType DEF UnderWay

LEMMA BusInitInv == BusInit => BusInv
<1> SUFFICES ASSUME BusInit PROVE BusInv
  OBVIOUS
<1> USE DEF BusInit
<1>1. devices = <<>> /\ DOMAIN devices = {} /\ connections = <<>> /\ DOMAIN connections = {}
  OBVIOUS
<1>2. queue = <<>> /\ DOMAIN queue = {} /\ Len(queue) = 0 /\ queue \in Seq(1 .. MaxBusIds)
  OBVIOUS
<1>3. BusTypeOK
  <2>1. sending \in [BusThreads -> {NotSending} \cup Sends]
    OBVIOUS
  <2>2. stats \in [sent : Nat, received : Nat, errors : Nat]
    BY DEF NoStats
  <2> QED
    BY BusAssumption, <1>1, <1>2, <2>1, <2>2 DEF BusTypeOK
<1>4. \A t \in BusThreads : sending[t] = NotSending
  OBVIOUS
<1>5. UnderWay = 0
  <2>1. {t \in BusThreads : sending[t].pc = "queue"} = {}
    BY <1>4 DEF NotSending
  <2> QED
    BY <2>1, FS_EmptySet DEF UnderWay
<1>6. TransportExact
  BY <1>2, <1>5 DEF TransportExact, NoStats
<1> QED
  BY <1>1, <1>2, <1>3, <1>4, <1>6 DEF BusInv, IdsTaken, OneSends, StampsApart

(* What a step of one of the three parts leaves alone. *)
LEMMA TransportApart ==
  ASSUME UNCHANGED <<outer_lock, transportvars>>, IdsTaken, OneSends, TransportExact
  PROVE  (IdsTaken /\ OneSends /\ TransportExact)'
BY DEF transportvars, IdsTaken, OneSends, TransportExact, UnderWay

LEMMA DiscoveryKeeps ==
  ASSUME BusInv, DiscoveryNext, UNCHANGED outer_lock
  PROVE  BusInv'
<1>1. PICK id \in BusDevices :
        \/ \E info \in DeviceInfos : RegisterDevice(id, info)
        \/ UnregisterDevice(id)
        \/ UpdateLastSeen(id)
  BY DEF DiscoveryNext
<1>2. UNCHANGED <<connectionvars, transportvars>>
  BY <1>1 DEF RegisterDevice, UnregisterDevice, UpdateLastSeen
<1>3. (IdsTaken /\ OneSends /\ TransportExact)'
  BY <1>2, TransportApart DEF BusInv
<1>4. /\ DOMAIN devices \subseteq BusDevices
      /\ clock \in Nat /\ FirstStamp <= clock /\ clock <= FirstStamp + MaxBusIds
      /\ FirstStamp \in Nat \ {0} /\ MaxBusIds \in Nat /\ SeenTimes \subseteq Nat
      /\ active \subseteq DOMAIN devices
  BY BusAssumption DEF BusInv, BusTypeOK
<1>5. ASSUME NEW d \in DOMAIN devices
      PROVE  devices[d] \in [device_type : DeviceTypes, is_online : BOOLEAN,
                              last_seen : SeenTimes \cup FirstStamp .. clock - 1]
  BY DEF BusInv, BusTypeOK
<1>6. StampsApart
  BY DEF BusInv
<1> DEFINE Typed(d) == devices'[d] \in [device_type : DeviceTypes, is_online : BOOLEAN,
                                       last_seen : SeenTimes \cup FirstStamp .. clock' - 1]
           Seen == /\ DOMAIN devices' \subseteq BusDevices /\ clock' \in FirstStamp .. FirstStamp + MaxBusIds
                   /\ \A d \in DOMAIN devices' : Typed(d)
                   /\ active' \subseteq DOMAIN devices'
<1>7. ASSUME NEW info \in DeviceInfos, RegisterDevice(id, info) PROVE Seen /\ StampsApart'
  <2>1. /\ clock' = clock /\ active' = active /\ id \notin DOMAIN devices
        /\ DOMAIN devices' = DOMAIN devices \cup {id}
        /\ \A d \in DOMAIN devices' : IF d = id THEN devices'[d] = info
                                      ELSE d \in DOMAIN devices /\ devices'[d] = devices[d]
    BY <1>7 DEF RegisterDevice, WithEntry
  <2>2. info \in [device_type : DeviceTypes, is_online : BOOLEAN, last_seen : SeenTimes]
    BY DEF DeviceInfos
  <2>3. ASSUME NEW d \in DOMAIN devices' PROVE Typed(d)
    <3>1. CASE d = id
      BY <2>1, <2>2, <3>1
    <3>2. CASE d # id
      BY <1>5, <2>1, <3>2
    <3> QED BY <3>1, <3>2
  <2>4. StampsApart'
    BY <1>4, <1>6, <2>1 DEF StampsApart
  <2> QED
    BY <1>1, <1>4, <2>1, <2>3, <2>4
<1>8. ASSUME UnregisterDevice(id) PROVE Seen /\ StampsApart'
  <2>1. /\ clock' = clock /\ active' = active \ {id}
        /\ DOMAIN devices' = DOMAIN devices \ {id}
        /\ \A d \in DOMAIN devices' : d \in DOMAIN devices /\ devices'[d] = devices[d]
    BY <1>8 DEF UnregisterDevice, WithoutEntry
  <2>2. ASSUME NEW d \in DOMAIN devices' PROVE Typed(d)
    BY <1>5, <2>1
  <2>3. StampsApart'
    BY <1>4, <1>6, <2>1 DEF StampsApart
  <2>4. /\ clock' \in FirstStamp .. FirstStamp + MaxBusIds /\ DOMAIN devices' \subseteq BusDevices
        /\ active' \subseteq DOMAIN devices'
    BY <1>4, <2>1
  <2> HIDE DEF Typed
  <2> QED
    BY <2>2, <2>3, <2>4
<1>9. ASSUME UpdateLastSeen(id) PROVE Seen /\ StampsApart'
  <2>1. /\ id \in DOMAIN devices /\ clock < FirstStamp + MaxBusIds /\ clock' = clock + 1
        /\ DOMAIN devices' = DOMAIN devices /\ active' = active \cup {id}
    BY <1>9 DEF UpdateLastSeen
  <2>2. ASSUME NEW d \in DOMAIN devices
        PROVE  /\ devices'[d].last_seen = IF d = id THEN clock ELSE devices[d].last_seen
               /\ Typed(d)
    <3>1. CASE d = id
      <4>1. devices'[d] = [devices[d] EXCEPT !.last_seen = clock]
        BY <1>9, <3>1 DEF UpdateLastSeen
      <4> QED
        BY <1>4, <1>5, <2>1, <3>1, <4>1
    <3>2. CASE d # id
      <4>1. devices'[d] = devices[d]
        BY <1>9, <3>2 DEF UpdateLastSeen
      <4> QED
        BY <1>4, <1>5, <2>1, <3>2, <4>1
    <3> QED BY <3>1, <3>2
  <2>3. StampsApart'
    <3>1. \A d \in active : devices[d].last_seen \in FirstStamp .. clock - 1
      BY <1>6 DEF StampsApart
    <3>2. \A d \in DOMAIN devices' :
            devices'[d].last_seen = IF d = id THEN clock ELSE devices[d].last_seen
      BY <2>1, <2>2
    <3> QED
      BY <1>4, <1>6, <2>1, <3>1, <3>2 DEF StampsApart
  <2>4. clock' \in FirstStamp .. FirstStamp + MaxBusIds /\ active' \subseteq DOMAIN devices'
    BY <1>4, <2>1
  <2> HIDE DEF Typed
  <2> QED
    BY <1>4, <2>1, <2>2, <2>3, <2>4
<1>10. Seen /\ StampsApart'
  BY <1>1, <1>7, <1>8, <1>9
<1>11. BusTypeOK'
  BY <1>2, <1>10 DEF BusInv, BusTypeOK, connectionvars, transportvars
<1> QED
  BY <1>3, <1>10, <1>11 DEF BusInv

LEMMA ConnectionKeeps ==
  ASSUME BusInv, ConnectionNext, UNCHANGED outer_lock
  PROVE  BusInv'
<1> DEFINE Infos == [peer : BusDevices, state : ConnectionStates, latency : Latencies \cup {0}]
           Typed == /\ next_conn' \in 1 .. MaxBusIds + 1
                    /\ DOMAIN connections' \subseteq 1 .. next_conn' - 1
                    /\ \A c \in DOMAIN connections' : connections'[c] \in Infos
<1>1. UNCHANGED <<discoveryvars, transportvars>>
  BY DEF ConnectionNext, ConnectTo, DisconnectFrom, UpdateState, UpdateLatency
<1>2. /\ next_conn \in 1 .. MaxBusIds + 1 /\ MaxBusIds \in Nat
      /\ DOMAIN connections \subseteq 1 .. next_conn - 1
      /\ \A c \in DOMAIN connections : connections[c] \in Infos
  BY BusAssumption DEF BusInv, BusTypeOK
<1>3. ASSUME NEW peer \in BusDevices, ConnectTo(peer) PROVE Typed
  <2>1. [peer |-> peer, state |-> "Connecting", latency |-> 0] \in Infos
    BY DEF ConnectionStates
  <2>2. /\ next_conn' = next_conn + 1 /\ next_conn <= MaxBusIds
        /\ DOMAIN connections' = DOMAIN connections \cup {next_conn}
        /\ \A c \in DOMAIN connections' :
             connections'[c] = IF c = next_conn THEN [peer |-> peer, state |-> "Connecting", latency |-> 0]
                               ELSE connections[c]
    BY <1>3 DEF ConnectTo, WithEntry
  <2>3. \A c \in DOMAIN connections' : connections'[c] \in Infos
    BY <1>2, <2>1, <2>2
  <2> HIDE DEF Infos
  <2> QED
    BY <1>2, <2>2, <2>3
<1>4. ASSUME NEW c \in 1 .. MaxBusIds, DisconnectFrom(c) PROVE Typed
  BY <1>2, <1>4 DEF DisconnectFrom, WithoutEntry
<1>5. ASSUME NEW c \in 1 .. MaxBusIds, NEW state \in ConnectionStates, UpdateState(c, state) PROVE Typed
  BY <1>2, <1>5 DEF UpdateState
<1>6. ASSUME NEW c \in 1 .. MaxBusIds, NEW latency \in Latencies, UpdateLatency(c, latency) PROVE Typed
  BY <1>2, <1>6 DEF UpdateLatency
<1>7. Typed
  BY <1>3, <1>4, <1>5, <1>6 DEF ConnectionNext
<1>8. BusTypeOK'
  BY <1>1, <1>7 DEF BusInv, BusTypeOK, discoveryvars, transportvars
<1>9. (IdsTaken /\ OneSends /\ TransportExact)'
  BY <1>1, TransportApart DEF BusInv
<1> QED
  BY <1>1, <1>8, <1>9 DEF BusInv, StampsApart, discoveryvars

(* A thread that sends has a message with an id. *)
LEMMA SendsMessage ==
  ASSUME BusTypeOK, NEW t \in BusThreads
  PROVE  /\ sending[t] = NotSending => sending[t].pc = "idle"
         /\ sending[t] # NotSending =>
              /\ sending[t] \in Sends /\ sending[t].id \in 1 .. MaxBusIds
              /\ sending[t].pc \in {"count", "queue"}
<1>1. sending[t] \in {NotSending} \cup Sends
  BY DEF BusTypeOK
<1> QED
  BY <1>1 DEF NotSending, Sends

(* The steps of the transport leave the tables of the bus alone. *)
LEMMA TablesApart ==
  ASSUME BusInv, UNCHANGED <<outer_lock, discoveryvars, connectionvars>>,
         queue' \in Seq(1 .. MaxBusIds), next_msg' \in 1 .. MaxBusIds + 1,
         stats' \in [sent : Nat, received : Nat, errors : Nat], missed' \in Nat,
         sending' \in [BusThreads -> {NotSending} \cup Sends],
         IdsTaken', OneSends', TransportExact'
  PROVE  BusInv'
<1>1. BusTypeOK'
  BY DEF BusInv, BusTypeOK, discoveryvars, connectionvars
<1>2. StampsApart'
  BY DEF BusInv, StampsApart, discoveryvars
<1> QED
  BY <1>1, <1>2 DEF BusInv

(* Who enters with the global lock is the only one to send. *)
LEMMA NobodySends ==
  ASSUME NEW t \in BusThreads, EntersBus(t), outer_lock, BusTypeOK
  PROVE  (\A s \in BusThreads : sending[s] = NotSending) /\ UnderWay = 0
<1>1. \A s \in BusThreads : sending[s] = NotSending
  BY DEF EntersBus
<1>2. {s \in BusThreads : sending[s].pc = "queue"} = {}
  BY <1>1, SendsMessage
<1> QED
  BY <1>1, <1>2, FS_EmptySet DEF UnderWay

LEMMA SendTakesIdKeeps ==
  ASSUME BusInv, NEW t \in BusThreads, SendTakesId(t), UNCHANGED outer_lock
  PROVE  BusInv'
<1>1. /\ BusTypeOK /\ IdsTaken /\ OneSends /\ TransportExact
      /\ queue \in Seq(1 .. MaxBusIds) /\ next_msg \in 1 .. MaxBusIds + 1
      /\ stats \in [sent : Nat, received : Nat, errors : Nat] /\ missed \in Nat
      /\ sending \in [BusThreads -> {NotSending} \cup Sends] /\ MaxBusIds \in Nat
  BY BusAssumption DEF BusInv, BusTypeOK
<1>2. /\ EntersBus(t) /\ sending[t] = NotSending /\ next_msg <= MaxBusIds /\ next_msg' = next_msg + 1
      /\ queue' = queue /\ stats' = stats /\ missed' = missed
      /\ UNCHANGED <<discoveryvars, connectionvars>>
  BY DEF SendTakesId, EntersBus
<1> DEFINE m == [pc |-> "count", id |-> next_msg]
<1>3. m \in Sends /\ m # NotSending
  BY <1>1, <1>2 DEF Sends, NotSending
<1>4. \A s \in BusThreads : sending'[s] = IF s = t THEN m ELSE sending[s]
  BY <1>1 DEF SendTakesId
<1>5. sending' \in [BusThreads -> {NotSending} \cup Sends]
  BY <1>1, <1>3 DEF SendTakesId
<1>6. m.id = next_msg /\ m.pc = "count"
  OBVIOUS
<1> HIDE DEF m
<1>7. \A i \in DOMAIN queue : queue[i] \in Nat /\ queue[i] < next_msg
  BY <1>1 DEF IdsTaken
<1>8. \A s \in BusThreads : sending[s] # NotSending => sending[s].id \in Nat /\ sending[s].id < next_msg
  BY <1>1, SendsMessage DEF IdsTaken
<1>9. IdsTaken'
  <2>1. \A i \in DOMAIN queue' : queue'[i] < next_msg'
    BY <1>1, <1>2, <1>7
  <2> SUFFICES ASSUME NEW u \in BusThreads, sending'[u] # NotSending
               PROVE  /\ sending'[u].id < next_msg'
                      /\ \A i \in DOMAIN queue : queue[i] # sending'[u].id
                      /\ \A s \in BusThreads \ {u} : sending'[s] # NotSending => sending'[s].id # sending'[u].id
    BY <1>2, <2>1 DEF IdsTaken
  <2>2. CASE u = t
    BY <1>1, <1>2, <1>4, <1>6, <1>7, <1>8, <2>2
  <2>3. CASE u # t
    BY <1>1, <1>2, <1>4, <1>6, <1>8, <2>3 DEF IdsTaken
  <2> QED
    BY <2>2, <2>3
<1>10. OneSends'
  <2> SUFFICES ASSUME outer_lock, NEW u \in BusThreads, sending'[u] # NotSending
               PROVE  /\ \A s \in BusThreads \ {u} : sending'[s] = NotSending
                      /\ \A i \in DOMAIN queue : queue[i] < sending'[u].id
    BY <1>2 DEF OneSends
  <2>1. \A s \in BusThreads : sending[s] = NotSending
    BY <1>1, <1>2, NobodySends
  <2> QED
    BY <1>4, <1>6, <1>7, <2>1
<1>11. TransportExact'
  <2>1. {s \in BusThreads : sending'[s].pc = "queue"} = {s \in BusThreads : sending[s].pc = "queue"}
    BY <1>1, <1>2, <1>4, <1>6, SendsMessage
  <2>2. UnderWay' = UnderWay
    BY <2>1 DEF UnderWay
  <2> QED
    BY <1>1, <1>2, <2>2 DEF TransportExact
<1>12. next_msg' \in 1 .. MaxBusIds + 1
  BY <1>1, <1>2
<1> QED
  BY <1>1, <1>2, <1>5, <1>9, <1>10, <1>11, <1>12, TablesApart

LEMMA SendCountsKeeps ==
  ASSUME BusInv, NEW t \in BusThreads, SendCounts(t), UNCHANGED outer_lock
  PROVE  BusInv'
<1>1. /\ BusTypeOK /\ IdsTaken /\ OneSends /\ TransportExact
      /\ queue \in Seq(1 .. MaxBusIds) /\ next_msg \in 1 .. MaxBusIds + 1
      /\ stats \in [sent : Nat, received : Nat, errors : Nat] /\ missed \in Nat
      /\ sending \in [BusThreads -> {NotSending} \cup Sends]
  BY DEF BusInv, BusTypeOK
<1>2. /\ sending[t].pc = "count" /\ next_msg' = next_msg
      /\ queue' = queue /\ missed' = missed /\ stats' = [stats EXCEPT !.sent = @ + 1]
      /\ sending' = [sending EXCEPT ![t].pc = "queue"]
      /\ UNCHANGED <<discoveryvars, connectionvars>>
  BY DEF SendCounts
<1>3. sending[t] \in Sends /\ sending[t] # NotSending
  BY <1>1, <1>2, SendsMessage
<1>4. /\ sending'[t] \in Sends /\ sending'[t] # NotSending
      /\ sending'[t].pc = "queue" /\ sending'[t].id = sending[t].id
  BY <1>1, <1>2, <1>3 DEF Sends, NotSending
<1>5. \A s \in BusThreads \ {t} : sending'[s] = sending[s]
  BY <1>1, <1>2
<1>6. sending' \in [BusThreads -> {NotSending} \cup Sends]
  <2>1. sending' = [s \in BusThreads |-> sending'[s]]
    BY <1>1, <1>2
  <2> QED
    BY <1>1, <1>4, <1>5, <2>1
<1>7. /\ stats' \in [sent : Nat, received : Nat, errors : Nat]
      /\ stats'.sent = stats.sent + 1 /\ stats'.received = stats.received
  BY <1>1, <1>2
<1>8. IdsTaken'
  BY <1>1, <1>2, <1>3, <1>4, <1>5 DEF IdsTaken
<1>9. OneSends'
  BY <1>1, <1>2, <1>3, <1>4, <1>5 DEF OneSends
<1>10. TransportExact'
  <2>1. {s \in BusThreads : sending'[s].pc = "queue"} = {s \in BusThreads : sending[s].pc = "queue"} \cup {t}
    BY <1>4, <1>5
  <2>2. UnderWay' = UnderWay + 1 /\ UnderWay \in Nat
    BY <1>2, <2>1, UnderWayIsNat, FS_AddElement DEF UnderWay
  <2>3. Len(queue) \in Nat /\ stats.sent \in Nat /\ stats.received \in Nat
    BY <1>1
  <2>4. stats.sent + missed = stats.received + Len(queue) + UnderWay
    BY <1>1 DEF TransportExact
  <2>6. missed \in Nat /\ missed' = missed /\ queue' = queue
    BY <1>1, <1>2
  <2>5. stats'.sent + missed' = stats'.received + Len(queue') + UnderWay'
    <3>1. stats'.sent = stats.sent + 1 /\ stats'.received = stats.received
      BY <1>7
    <3>2. Len(queue') = Len(queue)
      BY <2>6
    <3> DEFINE n == stats.sent
               r == stats.received
               l == Len(queue)
               u == UnderWay
    <3>3. n \in Nat /\ r \in Nat /\ l \in Nat /\ u \in Nat /\ n + missed = r + l + u
      BY <2>2, <2>3, <2>4
    <3>4. stats'.sent = n + 1 /\ stats'.received = r /\ Len(queue') = l /\ UnderWay' = u + 1
      BY <2>2, <3>1, <3>2
    <3> HIDE DEF n, r, l, u
    <3>5. (n + 1) + missed = r + l + (u + 1)
      BY <2>6, <3>3
    <3> QED
      BY <2>6, <3>4, <3>5
  <2> QED
    BY <1>1, <1>2, <2>5 DEF TransportExact
<1> QED
  BY <1>1, <1>2, <1>6, <1>7, <1>8, <1>9, <1>10, TablesApart

LEMMA SendQueuesKeeps ==
  ASSUME BusInv, NEW t \in BusThreads, SendQueues(t), UNCHANGED outer_lock
  PROVE  BusInv'
<1>1. /\ BusTypeOK /\ IdsTaken /\ OneSends /\ TransportExact
      /\ queue \in Seq(1 .. MaxBusIds) /\ next_msg \in 1 .. MaxBusIds + 1
      /\ stats \in [sent : Nat, received : Nat, errors : Nat] /\ missed \in Nat
      /\ sending \in [BusThreads -> {NotSending} \cup Sends]
  BY DEF BusInv, BusTypeOK
<1>2. /\ sending[t].pc = "queue" /\ next_msg' = next_msg
      /\ queue' = Append(queue, sending[t].id) /\ missed' = missed /\ stats' = stats
      /\ sending' = [sending EXCEPT ![t] = NotSending]
      /\ UNCHANGED <<discoveryvars, connectionvars>>
  BY DEF SendQueues
<1>3. sending[t] # NotSending /\ sending[t].id \in 1 .. MaxBusIds
  BY <1>1, <1>2, SendsMessage
<1>4. \A s \in BusThreads : sending'[s] = IF s = t THEN NotSending ELSE sending[s]
  BY <1>1, <1>2
<1>5. sending' \in [BusThreads -> {NotSending} \cup Sends]
  BY <1>1, <1>2
<1>6. /\ queue' \in Seq(1 .. MaxBusIds) /\ Len(queue') = Len(queue) + 1 /\ Len(queue) \in Nat
      /\ DOMAIN queue' = 1 .. Len(queue) + 1 /\ DOMAIN queue = 1 .. Len(queue)
      /\ \A i \in DOMAIN queue' :
           IF i \in DOMAIN queue THEN queue'[i] = queue[i] ELSE queue'[i] = sending[t].id
  BY <1>1, <1>2, <1>3
<1>7. IdsTaken'
  <2>1. \A i \in DOMAIN queue' : queue'[i] < next_msg'
    BY <1>1, <1>2, <1>3, <1>6 DEF IdsTaken
  <2> QED
    BY <1>1, <1>2, <1>3, <1>4, <1>6, <2>1 DEF IdsTaken
<1>8. OneSends'
  BY <1>1, <1>3, <1>4 DEF OneSends
<1>9. TransportExact'
  <2>1. {s \in BusThreads : sending'[s].pc = "queue"} = {s \in BusThreads : sending[s].pc = "queue"} \ {t}
    BY <1>4 DEF NotSending
  <2> DEFINE W == {s \in BusThreads : sending[s].pc = "queue"}
  <2>6. IsFiniteSet(W) /\ t \in W /\ UnderWay = Cardinality(W) /\ UnderWay \in Nat
    BY <1>2, UnderWayIsNat DEF UnderWay
  <2>7. UnderWay' = Cardinality(W \ {t})
    BY <2>1 DEF UnderWay
  <2>2. UnderWay' = UnderWay - 1 /\ UnderWay \in Nat
    <3> HIDE DEF W
    <3> QED
      BY <2>6, <2>7, FS_RemoveElement
  <2>3. stats'.sent + missed' = stats'.received + Len(queue') + UnderWay'
    BY <1>1, <1>2, <1>6, <2>2 DEF TransportExact
  <2>4. \A i, j \in DOMAIN queue' : i # j => queue'[i] # queue'[j]
    <3>1. \A i \in DOMAIN queue : queue[i] # sending[t].id
      BY <1>1, <1>3 DEF IdsTaken
    <3> QED
      BY <1>1, <1>6, <3>1 DEF TransportExact
  <2>5. outer_lock => \A i, j \in DOMAIN queue' : i < j => queue'[i] < queue'[j]
    <3>1. outer_lock => \A i \in DOMAIN queue : queue[i] < sending[t].id
      BY <1>1, <1>3 DEF OneSends
    <3> QED
      BY <1>1, <1>6, <3>1 DEF TransportExact
  <2> QED
    BY <2>3, <2>4, <2>5 DEF TransportExact
<1> QED
  BY <1>1, <1>2, <1>5, <1>6, <1>7, <1>8, <1>9, TablesApart

LEMMA ReceiveMessageKeeps ==
  ASSUME BusInv, NEW t \in BusThreads, ReceiveMessage(t), UNCHANGED outer_lock
  PROVE  BusInv'
<1>1. /\ BusTypeOK /\ IdsTaken /\ OneSends /\ TransportExact
      /\ queue \in Seq(1 .. MaxBusIds) /\ next_msg \in 1 .. MaxBusIds + 1
      /\ stats \in [sent : Nat, received : Nat, errors : Nat] /\ missed \in Nat
      /\ sending \in [BusThreads -> {NotSending} \cup Sends]
  BY DEF BusInv, BusTypeOK
<1>2. /\ queue # <<>> /\ queue' = Tail(queue) /\ stats' = [stats EXCEPT !.received = @ + 1]
      /\ next_msg' = next_msg /\ sending' = sending /\ missed' = missed
      /\ UNCHANGED <<discoveryvars, connectionvars>>
  BY DEF ReceiveMessage
<1>3. /\ queue' \in Seq(1 .. MaxBusIds) /\ Len(queue') = Len(queue) - 1
      /\ Len(queue) \in Nat \ {0}
      /\ DOMAIN queue' = 1 .. Len(queue) - 1 /\ DOMAIN queue = 1 .. Len(queue)
      /\ \A i \in DOMAIN queue' : i + 1 \in DOMAIN queue /\ queue'[i] = queue[i + 1]
  BY <1>1, <1>2
<1>4. /\ stats' \in [sent : Nat, received : Nat, errors : Nat]
      /\ stats'.received = stats.received + 1 /\ stats'.sent = stats.sent
      /\ stats.received \in Nat /\ stats.sent \in Nat
  <2>1. stats \in [sent : Nat, received : Nat, errors : Nat]
    BY <1>1
  <2>2. stats' = [stats EXCEPT !.received = @ + 1]
    BY <1>2
  <2> QED
    BY <2>1, <2>2
<1>5. IdsTaken' /\ OneSends'
  BY <1>1, <1>2, <1>3 DEF IdsTaken, OneSends
<1>6. TransportExact'
  <2>1. UnderWay' = UnderWay /\ UnderWay \in Nat
    BY <1>2, UnderWayIsNat DEF UnderWay
  <2>5. /\ stats.sent + missed = stats.received + Len(queue) + UnderWay
        /\ \A i, j \in DOMAIN queue : i # j => queue[i] # queue[j]
        /\ outer_lock => \A i, j \in DOMAIN queue : i < j => queue[i] < queue[j]
        /\ missed \in Nat /\ missed' = missed
    BY <1>1, <1>2 DEF TransportExact
  <2>2. stats'.sent + missed' = stats'.received + Len(queue') + UnderWay'
    BY <1>3, <1>4, <2>1, <2>5
  <2>6. \A i \in DOMAIN queue' : /\ i \in Nat /\ i + 1 \in DOMAIN queue
                                /\ queue'[i] = queue[i + 1]
    BY <1>3
  <2>3. \A i, j \in DOMAIN queue' : i # j => queue'[i] # queue'[j]
    BY <2>5, <2>6
  <2>4. outer_lock => \A i, j \in DOMAIN queue' : i < j => queue'[i] < queue'[j]
    BY <2>5, <2>6
  <2> QED
    BY <2>2, <2>3, <2>4 DEF TransportExact
<1> QED
  BY <1>1, <1>2, <1>3, <1>4, <1>5, <1>6, TablesApart

LEMMA SendInvalidKeeps ==
  ASSUME BusInv, NEW t \in BusThreads, SendInvalid(t), UNCHANGED outer_lock
  PROVE  BusInv'
<1>1. stats \in [sent : Nat, received : Nat, errors : Nat]
  BY DEF BusInv, BusTypeOK
<1>2. /\ stats' \in [sent : Nat, received : Nat, errors : Nat]
      /\ stats'.sent = stats.sent /\ stats'.received = stats.received
      /\ UNCHANGED <<queue, next_msg, sending, missed, discoveryvars, connectionvars>>
  BY <1>1 DEF SendInvalid
<1>3. (IdsTaken /\ OneSends /\ TransportExact)'
  BY <1>2 DEF BusInv, IdsTaken, OneSends, TransportExact, UnderWay
<1> QED
  BY <1>2, <1>3, TablesApart DEF BusInv, BusTypeOK

LEMMA ResetStatsKeeps ==
  ASSUME BusInv, NEW t \in BusThreads, ResetStats(t), UNCHANGED outer_lock
  PROVE  BusInv'
<1>1. /\ BusTypeOK /\ queue \in Seq(1 .. MaxBusIds) /\ Len(queue) \in Nat /\ UnderWay \in Nat
  BY UnderWayIsNat DEF BusInv, BusTypeOK
<1>2. /\ stats' \in [sent : Nat, received : Nat, errors : Nat]
      /\ stats'.sent = 0 /\ stats'.received = 0 /\ missed' = Len(queue) + UnderWay
      /\ UNCHANGED <<queue, next_msg, sending, discoveryvars, connectionvars>>
  BY DEF ResetStats, NoStats
<1>3. (IdsTaken /\ OneSends)'
  BY <1>2 DEF BusInv, IdsTaken, OneSends
<1>4. TransportExact'
  <2>1. UnderWay' = UnderWay
    BY <1>2 DEF UnderWay
  <2> QED
    BY <1>1, <1>2, <2>1 DEF BusInv, TransportExact
<1>5. missed' \in Nat
  BY <1>1, <1>2
<1> QED
  BY <1>2, <1>3, <1>4, <1>5, TablesApart DEF BusInv, BusTypeOK

LEMMA BusNextInv ==
  ASSUME BusInv, [BusNext]_busvars
  PROVE  BusInv'
<1>1. CASE UNCHANGED busvars
  <2>1. UNCHANGED <<outer_lock, discoveryvars, connectionvars, transportvars>>
    BY <1>1 DEF busvars
  <2>2. (IdsTaken /\ OneSends /\ TransportExact)'
    BY <2>1, TransportApart DEF BusInv
  <2> QED
    BY <2>1, <2>2, TablesApart DEF BusInv, BusTypeOK, transportvars
<1>2. CASE DiscoveryNext /\ UNCHANGED outer_lock
  BY <1>2, DiscoveryKeeps
<1>3. CASE ConnectionNext /\ UNCHANGED outer_lock
  BY <1>3, ConnectionKeeps
<1>4. CASE TransportNext /\ UNCHANGED outer_lock
  BY <1>4, SendInvalidKeeps, SendTakesIdKeeps, SendCountsKeeps, SendQueuesKeeps,
     ReceiveMessageKeeps, ResetStatsKeeps DEF TransportNext
<1> QED
  BY <1>1, <1>2, <1>3, <1>4 DEF BusNext

(* Of the connections to a device that are established there is a first    *)
(* one with the least latency, and select_best_connection finds it.        *)
LEMMA BestIsFound ==
  ASSUME BusTypeOK, NEW peer \in BusDevices, NEW c \in DOMAIN connections,
         connections[c].peer = peer, connections[c].state = "Connected"
  PROVE  \E best \in SelectBest(peer) :
           /\ connections[best].state = "Connected"
           /\ connections[best].latency <= connections[c].latency
           /\ connections[c].latency = connections[best].latency => best <= c
<1> DEFINE usable == {d \in DOMAIN connections :
                        connections[d].peer = peer /\ connections[d].state = "Connected"}
           latencies == {connections[d].latency : d \in usable}
<1>1. /\ DOMAIN connections \subseteq Nat
      /\ \A d \in DOMAIN connections : connections[d].latency \in Nat
  <2>1. next_conn \in Nat /\ DOMAIN connections \subseteq 1 .. next_conn - 1
    BY BusAssumption DEF BusTypeOK
  <2>2. \A d \in DOMAIN connections : connections[d].latency \in Latencies \cup {0}
    BY DEF BusTypeOK
  <2>3. Latencies \cup {0} \subseteq Nat
    BY BusAssumption
  <2> QED
    BY <2>1, <2>2, <2>3
<1>2. latencies \subseteq Nat /\ latencies # {}
  BY <1>1
<1>3. PICK least \in latencies : \A l \in latencies : least <= l
  <2> HIDE DEF latencies
  <2> QED
    BY <1>2, LeastNumber
<1> DEFINE fastest == {d \in usable : \A e \in usable : connections[d].latency <= connections[e].latency}
<1>4. fastest \subseteq Nat /\ fastest # {}
  BY <1>1, <1>3
<1>5. PICK best \in fastest : \A d \in fastest : best <= d
  <2> HIDE DEF fastest
  <2> QED
    BY <1>4, LeastNumber
<1>6. best \in SelectBest(peer)
  BY <1>5 DEF SelectBest, Least
<1>7. connections[best].state = "Connected" /\ connections[best].latency <= connections[c].latency
  BY <1>5
<1>8. ASSUME connections[c].latency = connections[best].latency PROVE best <= c
  <2>1. c \in fastest
    BY <1>5, <1>8
  <2> QED
    BY <1>5, <2>1
<1> QED
  BY <1>6, <1>7, <1>8

LEMMA TablesFollow ==
  ASSUME BusInv
  PROVE  TablesExact
<1>1. BusTypeOK /\ StampsApart
  BY DEF BusInv
<1>2. \A peer \in BusDevices : \A best \in SelectBest(peer) :
        connections[best].peer = peer /\ connections[best].state = "Connected"
  BY DEF SelectBest, Least
<1>3. \A a \in ListDevices \cap active :
        /\ devices[a].last_seen < clock
        /\ \A b \in active \ {a} : devices[a].last_seen # devices[b].last_seen
  <2>1. clock \in Nat /\ FirstStamp \in Nat
    BY <1>1, BusAssumption DEF BusTypeOK
  <2> QED
    BY <1>1, <2>1 DEF StampsApart
<1>4. ListOnline \cup FindByType("Phone") \subseteq ListDevices
  BY DEF ListOnline, FindByType, ListDevices
<1> QED
  BY <1>1, <1>2, <1>3, <1>4, BestIsFound DEF TablesExact

(* The soft bus, with any number of threads and devices, behind its global *)
(* locks or not: the counters of the transport differ by the messages in   *)
(* the queue or on their way to it, each message is queued once, and in    *)
(* the order of the ids behind the lock (send, receive, reset_stats); the  *)
(* connection chosen for a device is the first of the fastest that are     *)
(* established (select_best_connection), and devices seen since they were  *)
(* registered, with whatever time, have times of their own, all before the *)
(* next one (update_last_seen).                                            *)
THEOREM BusHolds == BusSpec => []BusExact
<1>1. BusInv => BusExact
  BY TablesFollow DEF BusInv, BusExact
<1> QED
  BY <1>1, BusInitInv, BusNextInv, PTL DEF BusSpec

=============================================================================

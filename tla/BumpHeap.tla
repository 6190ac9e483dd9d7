------------------------------ MODULE BumpHeap -------------------------------
(***************************************************************************)
(* The kernel's heap, kernel/src/memory/heap.rs, from init_heap on.        *)
(*                                                                         *)
(* alloc advances the bump pointer with one fetch_add, works out the block *)
(* from the value it got, and, if the block fits, copies the pointer as it *)
(* is then to HEAP_USED.  dealloc does nothing, so blocks stay in use.     *)
(***************************************************************************)
EXTENDS Naturals, Sequences

CONSTANTS
  HeapThreads,
  HEAP_START, HEAP_SIZE, HEAP_ALIGN,
  HeapSizes, HeapAligns,  \* the sizes and alignments requested
  HeapMod,                \* addresses are unsigned numbers modulo HeapMod
  MaxBlocks               \* bound: successful allocations

(* What the code guarantees of the constants *)
ASSUME HeapAssumption ==
  /\ {HEAP_START, HEAP_SIZE, MaxBlocks} \subseteq Nat
  /\ {HEAP_ALIGN, HeapMod} \subseteq Nat \ {0}
  /\ HEAP_START + HEAP_SIZE < HeapMod
  /\ HeapSizes \cup HeapAligns \subseteq Nat \ {0}
  /\ \A size \in HeapSizes : size < HeapMod

VARIABLES
  next,        \* the bump pointer, an offset
  heap_used,   \* HEAP_USED
  heap_call,   \* the locals of each thread's call, HeapIdle between calls
  blocks       \* history: the blocks handed out, in their order, each with
               \* the padding between the pointer's value and its start

bumpvars == <<next, heap_used, heap_call, blocks>>

HeapIdle == [op |-> "idle"]
Layouts == [size : HeapSizes, align : HeapAligns]

BumpInit ==
  /\ next = 0
  /\ heap_used = 0
  /\ heap_call = [t \in HeapThreads |-> HeapIdle]
  /\ blocks = <<>>

(* The least multiple of align from addr on, where align is a power of 2   *)
AlignUp(addr, align) == ((addr + align - 1) \div align) * align

AlignOf(l) == IF l.align >= HEAP_ALIGN THEN l.align ELSE HEAP_ALIGN

(* The address of the block when the pointer was at current *)
Start(current, l) == AlignUp(HEAP_START + current, AlignOf(l)) % HeapMod

(* What lies between the pointer's value and the block; nobody keeps it.   *)
Padding(current, l) ==
  AlignUp(HEAP_START + current, AlignOf(l)) - (HEAP_START + current)

Fits(current, l) == (Start(current, l) + l.size) % HeapMod <= HEAP_START + HEAP_SIZE

(* Mutated form of Advanced: the size is rounded to the alignment, the     *)
(* wrong way.                                                              *)
AdvancedRoundedDown(l) == (next + (l.size \div HEAP_ALIGN) * HEAP_ALIGN) % HeapMod

Advanced(l) == (next + l.size) % HeapMod

(* A null pointer when the block does not fit: the pointer has moved       *)
AllocAdvances(t, l) ==
  /\ heap_call[t] = HeapIdle
  /\ next' = Advanced(l)
  /\ \/ /\ Fits(next, l)
        /\ Len(blocks) < MaxBlocks
        /\ blocks' = Append(blocks, [start |-> Start(next, l), size |-> l.size,
                                    padding |-> Padding(next, l)])
        /\ heap_call' = [heap_call EXCEPT ![t] = [op |-> "load_next"]]
     \/ /\ ~Fits(next, l)
        /\ UNCHANGED <<heap_call, blocks>>
  /\ UNCHANGED heap_used

AllocLoadsNext(t) ==
  /\ heap_call[t].op = "load_next"
  /\ heap_call' = [heap_call EXCEPT ![t] = [op |-> "store_used", used |-> next]]
  /\ UNCHANGED <<next, heap_used, blocks>>

AllocStoresUsed(t) ==
  /\ heap_call[t].op = "store_used"
  /\ heap_used' = heap_call[t].used
  /\ heap_call' = [heap_call EXCEPT ![t] = HeapIdle]
  /\ UNCHANGED <<next, blocks>>

(* Bound: the pointer does not wrap around *)
BumpNext ==
  /\ \/ \E t \in HeapThreads, l \in Layouts : AllocAdvances(t, l)
     \/ \E t \in HeapThreads : AllocLoadsNext(t)
     \/ \E t \in HeapThreads : AllocStoresUsed(t)
  /\ next' >= next

BumpSpec == BumpInit /\ [][BumpNext]_bumpvars

-----------------------------------------------------------------------------

BlockRecords == [start : 0 .. HeapMod - 1, size : Nat, padding : Nat]
HeapCalls == {HeapIdle, [op |-> "load_next"]}
               \cup [op : {"store_used"}, used : 0 .. HeapMod - 1]

BumpTypeOK ==
  /\ {next, heap_used} \subseteq 0 .. HeapMod - 1
  /\ blocks \in Seq(BlockRecords)
  /\ heap_call \in [HeapThreads -> HeapCalls]

Units(b) == b.start .. b.start + b.size - 1

(* The k-th unit of the heap as a block with this padding sees it          *)
UnitAt(padding, k) == (HEAP_START + padding + k) % HeapMod

(* The units of a block are those the pointer has passed, moved on by the  *)
(* padding of the block.                                                   *)
UnitsBelowNext ==
  \A i \in DOMAIN blocks : \A u \in Units(blocks[i]) :
     \E k \in 0 .. next - 1 : u % HeapMod = UnitAt(blocks[i].padding, k)

(* The inductive invariant *)
BumpInv == BumpTypeOK /\ UnitsBelowNext

(* alloc advances the pointer by the size alone, so that each block is     *)
(* moved out of the range reserved for it by its padding.  Whatever sizes  *)
(* and alignments are asked for and however the calls interleave, blocks   *)
(* with one padding, above all those with none, never share a unit: for    *)
(* each padding the heap is an allocator.  Blocks overlap only where       *)
(* paddings differ (as in PointersDiffer).                                 *)
HeapBlocks == INSTANCE Allocator WITH
  live <- [i \in DOMAIN blocks |-> {blocks[i].padding} \X Units(blocks[i])]

HeapAllocates == HeapBlocks!Spec

(* heap.rs:175: different allocations return different pointers. *)
PointersDiffer ==
  \A i, j \in DOMAIN blocks : i # j => blocks[i].start # blocks[j].start

=============================================================================

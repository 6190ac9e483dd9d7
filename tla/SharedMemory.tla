---------------------------- MODULE SharedMemory -----------------------------
(***************************************************************************)
(* The pool of shared memory regions, kernel/src/ipc/shared_memory.rs.     *)
(* Every operation holds the lock on the regions from its first look to    *)
(* its last update, so each is one step.  The sizes are counters modulo    *)
(* SizeMod beside the table.                                               *)
(***************************************************************************)
EXTENDS Integers, Functions, FiniteSetsExt

CONSTANTS
  Owners,
  Sizes,        \* the sizes requested; 0 is refused (InvalidSize)
  max_regions,
  SizeMod,      \* total_size and used_size are numbers modulo SizeMod
  MaxIds        \* bound: regions ever allocated

(* What the code guarantees of the constants *)
ConstantsOK ==
  /\ Sizes \subseteq Nat \ {0}
  /\ max_regions \in Nat
  /\ SizeMod \in Nat /\ \A s \in Sizes : s < SizeMod
  /\ MaxIds \in Nat

VARIABLES regions, total_size, used_size, next_id

vars == <<regions, total_size, used_size, next_id>>

Init ==
  /\ regions = <<>>
  /\ total_size = 0
  /\ used_size = 0
  /\ next_id = 1

Plus(a, b) == (a + b) % SizeMod
Minus(a, b) == (a + SizeMod - b) % SizeMod

(* Otherwise allocate fails with OutOfMemory *)
Fits == Cardinality(DOMAIN regions) < max_regions

Allocate(size, owner) ==
  /\ Fits
  /\ next_id <= MaxIds
  /\ regions' = [id \in DOMAIN regions \cup {next_id} |->
                   IF id = next_id THEN [size |-> size, owner |-> owner] ELSE regions[id]]
  /\ next_id' = next_id + 1
  /\ used_size' = Plus(used_size, size)
  /\ total_size' = Plus(total_size, size)

Deallocate(id) ==
  /\ id \in DOMAIN regions
  /\ regions' = Restrict(regions, DOMAIN regions \ {id})
  /\ used_size' = Minus(used_size, regions[id].size)
  /\ total_size' = Minus(total_size, regions[id].size)
  /\ UNCHANGED next_id

Resize(id, new_size) ==
  /\ id \in DOMAIN regions
  /\ regions' = [regions EXCEPT ![id].size = new_size]
  /\ used_size' = Plus(Minus(used_size, regions[id].size), new_size)
  /\ UNCHANGED <<total_size, next_id>>

Transfer(id, new_owner) ==
  /\ id \in DOMAIN regions
  /\ regions' = [regions EXCEPT ![id].owner = new_owner]
  /\ UNCHANGED <<total_size, used_size, next_id>>

Next ==
  \/ \E size \in Sizes, owner \in Owners : Allocate(size, owner)
  \/ \E id \in DOMAIN regions : Deallocate(id)
  \/ \E id \in DOMAIN regions, size \in Sizes : Resize(id, size)
  \/ \E id \in DOMAIN regions, owner \in Owners : Transfer(id, owner)

Spec == Init /\ [][Next]_vars

-----------------------------------------------------------------------------

TypeOK ==
  /\ DOMAIN regions \subseteq 1 .. next_id - 1
  /\ Cardinality(DOMAIN regions) <= max_regions
  /\ \A id \in DOMAIN regions : regions[id] \in [size : Sizes, owner : Owners]
  /\ total_size \in 0 .. SizeMod - 1
  /\ used_size \in 0 .. SizeMod - 1
  /\ next_id \in 1 .. MaxIds + 1

SizeOfRegions == MapThenSumSet(LAMBDA id : regions[id].size, DOMAIN regions)

(* used_size is the size of the regions in the table. *)
UsedExact == used_size = SizeOfRegions % SizeMod

=============================================================================

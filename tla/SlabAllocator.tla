---------------------------- MODULE SlabAllocator ----------------------------
(***************************************************************************)
(* The kernel's slab caches, kernel/src/memory/slab.rs.  Every operation   *)
(* of the allocator holds the lock on the caches, so each is one step.     *)
(*                                                                         *)
(* An address is <<i, k, offset>>, an offset in slab k of cache i; a slab  *)
(* is the offset of its first aligned byte, which depends on where the     *)
(* page was put and so is any number below the alignment.  Callers free    *)
(* what they were given, once.                                             *)
(***************************************************************************)
EXTENDS Naturals, SequencesExt

CONSTANTS
  CacheNames,
  CacheConfigs,    \* the object sizes and alignments caches are created with
  Requests,        \* the sizes and alignments given to kmalloc
  SLAB_PAGE_SIZE,
  MaxCaches,       \* bound: caches created
  MaxSlabs,        \* bound: slabs of one cache
  MaxLive          \* bound: objects in use at once

(* What the code guarantees of the constants *)
ASSUME SlabAssumption ==
  /\ {SLAB_PAGE_SIZE, MaxCaches, MaxSlabs, MaxLive} \subseteq Nat
  /\ CacheConfigs \cup Requests \subseteq [size : Nat \ {0}, align : Nat \ {0}]

VARIABLES
  caches,   \* the caches in the order of their creation
  live      \* history: the objects in use

slabvars == <<caches, live>>

SlabInit ==
  /\ caches = <<>>
  /\ live = <<>>

-----------------------------------------------------------------------------
(* SlabCache *)

(* Mutated form of Stride: sizes are rounded down to the alignment. *)
StrideBelow(c) == (c.size \div c.align) * c.align

Stride(c) == ((c.size + c.align - 1) \div c.align) * c.align

(* Mutated form of ObjectOffsets: an object need only begin in the page.   *)
ObjectOffsetsPastEnd(c, first) ==
  LET count == IF first + c.size > SLAB_PAGE_SIZE THEN 0
               ELSE (SLAB_PAGE_SIZE - first - 1) \div Stride(c) + 1
  IN [j \in 1 .. count |-> first + (j - 1) * Stride(c)]

(* The offsets of a slab's objects, in order *)
ObjectOffsets(c, first) ==
  LET count == IF first + c.size > SLAB_PAGE_SIZE THEN 0
               ELSE (SLAB_PAGE_SIZE - first - c.size) \div Stride(c) + 1
  IN [j \in 1 .. count |-> first + (j - 1) * Stride(c)]

(* Cache i after add_slab *)
WithSlab(c, i, first) ==
  LET k == Len(c.slabs) + 1
      offsets == ObjectOffsets(c, first)
  IN [c EXCEPT !.slabs = Append(@, first),
               !.free_list = @ \o [j \in DOMAIN offsets |-> <<i, k, offsets[j]>>]]

GrownCaches(c, i) == {WithSlab(c, i, first) : first \in 0 .. c.align - 1}

NewCache(name, config) ==
  [name |-> name, size |-> config.size, align |-> config.align,
   slabs |-> <<>>, free_list |-> <<>>, used_count |-> 0]

(* alloc grows the cache when nothing is free, and pops the last object    *)
Refilled(i) == IF caches[i].free_list = <<>> THEN GrownCaches(caches[i], i) ELSE {caches[i]}

Popped(c) == [c EXCEPT !.free_list = Front(@), !.used_count = @ + 1]

(* AllocationFailed when not even a new slab has room for an object; the   *)
(* slab stays                                                              *)
AllocObject(i) ==
  \E c \in Refilled(i) :
    /\ Len(c.slabs) <= MaxSlabs
    /\ \/ /\ c.free_list # <<>>
          /\ \E h \in 1 .. MaxLive \ DOMAIN live :
               live' = [g \in DOMAIN live \cup {h} |->
                          IF g = h THEN Last(c.free_list) ELSE live[g]]
          /\ caches' = [caches EXCEPT ![i] = Popped(c)]
       \/ /\ c.free_list = <<>>
          /\ caches' = [caches EXCEPT ![i] = c]
          /\ UNCHANGED live

-----------------------------------------------------------------------------
(* SlabAllocator *)

(* CacheAlreadyExists when the name is taken; a new cache has one slab     *)
CreateCache(name, config) ==
  /\ Len(caches) < MaxCaches
  /\ \A i \in DOMAIN caches : caches[i].name # name
  /\ \E c \in GrownCaches(NewCache(name, config), Len(caches) + 1) :
       caches' = Append(caches, c)
  /\ UNCHANGED live

Alloc(name) == \E i \in DOMAIN caches : caches[i].name = name /\ AllocObject(i)

Suits(i, r) == caches[i].size >= r.size /\ caches[i].align >= r.align

(* The first of the smallest caches that suit the request *)
IsBest(i, r) ==
  /\ Suits(i, r)
  /\ \A j \in DOMAIN caches :
       Suits(j, r) => \/ caches[i].size < caches[j].size
                      \/ caches[i].size = caches[j].size /\ i <= j

Kmalloc(r) == \E i \in DOMAIN caches : IsBest(i, r) /\ AllocObject(i)

Freed(c, ptr) ==
  [c EXCEPT !.free_list = Append(@, ptr),
            !.used_count = IF @ > 0 THEN @ - 1 ELSE 0]

Release(h) ==
  LET i == live[h][1]
  IN /\ caches' = [caches EXCEPT ![i] = Freed(@, live[h])]
     /\ live' = [g \in DOMAIN live \ {h} |-> live[g]]

(* InvalidPointer in any other cache than the object's own                 *)
Free(name, h) ==
  /\ h \in DOMAIN live
  /\ caches[live[h][1]].name = name
  /\ Release(h)

(* The slabs are disjoint, so the address is in the object's own cache     *)
Kfree(h) == h \in DOMAIN live /\ Release(h)

SlabNext ==
  \/ \E name \in CacheNames, config \in CacheConfigs : CreateCache(name, config)
  \/ \E name \in CacheNames : Alloc(name)
  \/ \E r \in Requests : Kmalloc(r)
  \/ \E name \in CacheNames, h \in 1 .. MaxLive : Free(name, h)
  \/ \E h \in 1 .. MaxLive : Kfree(h)

SlabSpec == SlabInit /\ [][SlabNext]_slabvars

-----------------------------------------------------------------------------

(* The objects of cache c, which has number i                               *)
ObjectsOf(c, i) ==
  UNION {{<<i, k, o>> : o \in ToSet(ObjectOffsets(c, c.slabs[k]))} : k \in DOMAIN c.slabs}

Objects(i) == ObjectsOf(caches[i], i)

UsedPointers == {live[h] : h \in DOMAIN live}

(* stats: the objects of a cache, free or in use                            *)
TotalObjects(c) == Len(c.free_list) + c.used_count

LiveIn(i) == {h \in DOMAIN live : live[h][1] = i}

Pointers == Nat \X Nat \X Nat

CacheType ==
  [name : CacheNames, size : Nat \ {0}, align : Nat \ {0}, slabs : Seq(Nat),
   free_list : Seq(Pointers), used_count : Nat]

SlabTypeOK ==
  /\ caches \in Seq(CacheType)
  /\ DOMAIN live \subseteq 1 .. MaxLive
  /\ live \in [DOMAIN live -> Pointers]

(* A slab starts at the first aligned address of its page.                 *)
WellMade(c) ==
  /\ [size |-> c.size, align |-> c.align] \in CacheConfigs
  /\ \A k \in DOMAIN c.slabs : c.slabs[k] < c.align

(* Cache c has each object that is not in use once in its free list.       *)
FreeListExact(c, i, used) ==
  /\ IsInjective(c.free_list)
  /\ ToSet(c.free_list) = ObjectsOf(c, i) \ used

(* The inductive invariant *)
SlabInv ==
  /\ SlabTypeOK
  /\ IsInjective(live)
  /\ \A h \in DOMAIN live : live[h][1] \in DOMAIN caches /\ live[h] \in Objects(live[h][1])
  /\ \A i \in DOMAIN caches : /\ WellMade(caches[i])
                              /\ FreeListExact(caches[i], i, UsedPointers)
                              /\ caches[i].used_count = Cardinality(LiveIn(i))

(* No object is lost or duplicated: each object of a cache is once in its  *)
(* free list or once in use, and used_count counts the latter.  The last   *)
(* byte of an object is in its page, wherever the page is and whatever the *)
(* size and alignment of the class.                                        *)
ObjectsAccounted ==
  \A i \in DOMAIN caches :
    /\ caches[i].used_count = Cardinality(LiveIn(i))
    /\ TotalObjects(caches[i]) = Cardinality(Objects(i))
    /\ ToSet(caches[i].free_list) = Objects(i) \ UsedPointers
    /\ \A ptr \in Objects(i) : ptr[3] + caches[i].size <= SLAB_PAGE_SIZE

(* The bytes of an object, and the padding between objects is no one's     *)
ObjectBytes(ptr) ==
  {<<ptr[1], ptr[2], o>> : o \in ptr[3] .. ptr[3] + caches[ptr[1]].size - 1}

(* The slab caches are an allocator.                                       *)
SlabBlocks == INSTANCE Allocator WITH live <- [h \in DOMAIN live |-> ObjectBytes(live[h])]

SlabsAllocate == SlabBlocks!Spec

=============================================================================

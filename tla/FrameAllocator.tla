--------------------------- MODULE FrameAllocator ----------------------------
(***************************************************************************)
(* Physical frames, kernel/src/memory/frame_allocator.rs: a bitmap with    *)
(* one bit per frame and a hint where the search for a free one begins.    *)
(* The methods take &mut self, so each is one step.  The caller gives the  *)
(* bitmap and the number of frames separately: either may be the larger.   *)
(***************************************************************************)
EXTENDS Integers

CONSTANTS
  FrameCount,   \* frame_count
  BitCount      \* the number of bits in the bitmap

ASSUME FrameCountAssumption == FrameCount \in Nat
ASSUME BitCountAssumption == BitCount \in Nat

VARIABLES
  allocated,    \* the frames whose bit is set
  next_free,
  result        \* what the last allocate_frame returned, Pending after others

framevars == <<allocated, next_free, result>>

None == -1
Pending == -2

(* The frames that have a bit *)
Usable == {i \in 0 .. FrameCount - 1 : i < BitCount}

FramesInit ==
  /\ allocated = {}
  /\ next_free = 0
  /\ result = Pending

IsLeast(i, S) == i \in S /\ \A j \in S : i <= j

FreeAhead == {i \in Usable : i >= next_free /\ i \notin allocated}
FreeBehind == {i \in Usable : i < next_free /\ i \notin allocated}

(* The search ahead runs up to frame_count: a frame without a bit ends the *)
(* call with None before the search wraps around.                          *)
WrapsAround == FrameCount <= BitCount

Candidates ==
  IF FreeAhead # {} THEN FreeAhead
  ELSE IF WrapsAround THEN FreeBehind ELSE {}

(* Mutated form of After: the hint skips a frame. *)
AfterNext(i) == i + 2

(* The hint once frame i is taken *)
After(i) == i + 1

Allocate ==
  \E i \in Candidates :
    /\ IsLeast(i, Candidates)
    /\ allocated' = allocated \cup {i}
    /\ next_free' = After(i)
    /\ result' = i

AllocateFails ==
  /\ Candidates = {}
  /\ result' = None
  /\ UNCHANGED <<allocated, next_free>>

(* Mutated form of Deallocate: the hint stays where it is. *)
DeallocateKeepsHint(i) ==
  /\ i \in Usable
  /\ allocated' = allocated \ {i}
  /\ result' = Pending
  /\ UNCHANGED next_free

(* Any frame, also one that is free already; a number without a bit is     *)
(* ignored.                                                                *)
Deallocate(i) ==
  /\ i \in Usable
  /\ allocated' = allocated \ {i}
  /\ next_free' = IF i < next_free THEN i ELSE next_free
  /\ result' = Pending

FramesNext ==
  \/ Allocate
  \/ AllocateFails
  \/ \E i \in Usable : Deallocate(i)

FramesSpec == FramesInit /\ [][FramesNext]_framevars

-----------------------------------------------------------------------------

FramesTypeOK ==
  /\ allocated \subseteq Usable
  /\ next_free \in Nat
  /\ result \in Usable \cup {None, Pending}

(* allocate_frame fails only when every frame is taken, although the       *)
(* search may end before it has wrapped around.                            *)
FailsOnlyWhenFull == result = None => Usable \subseteq allocated

(* Why: the hint never passes a free frame.                                *)
HintBelowFree == \A j \in Usable : j < next_free => j \in allocated

FramesInv == FramesTypeOK /\ HintBelowFree /\ FailsOnlyWhenFull

=============================================================================

------------------------------ MODULE MCMachine -------------------------------
(***************************************************************************)
(* What lies under everything else, on small instances: the CFS scheduler, *)
(* physical frames, the heap, the slab caches, the shared regions, address *)
(* spaces and devices.  They share no state, so that in a behaviour only   *)
(* one of them moves: `part', chosen at the start, says which and how.     *)
(***************************************************************************)
EXTENDS CfsScheduler, FrameAllocator, BumpHeap, SlabAllocator, AddressSpace

VARIABLES
  part,
  regions, total_size, used_size, region_id,
  devices, device_id, drivers, block_devices, disks, written, keyboard, keys,
  screen, printed, serial, stacks, transcript

cfsvars == vars
shmvars == <<regions, total_size, used_size, region_id>>
memoryvars == <<framevars, bumpvars, slabvars, shmvars>>
devicevars == <<devices, device_id, drivers>>
blockvars == <<block_devices, disks, written>>
keyvars == <<keyboard, keys>>
screenvars == <<screen, printed>>
serialvars == <<serial, stacks, transcript>>
drivervars == <<devicevars, blockvars, keyvars, screenvars, serialvars>>
mcvars == <<part, cfsvars, memoryvars, spacevars, drivervars>>

(* A bitmap with a bit for every frame, and more *)
FramesAll == INSTANCE FrameAllocator WITH BitCount <- 8

(* Objects that fill the page evenly, leave gaps, or fit only a page that  *)
(* starts at an aligned address                                            *)
Object(size, align) == [size |-> size, align |-> align]
MCCacheConfigs == {Object(2, 1), Object(3, 2), Object(6, 4)}
MCRequests == {Object(1, 1), Object(2, 2), Object(4, 1)}

Shm == INSTANCE SharedMemory WITH
  Owners <- {"a", "b"}, Sizes <- {1, 2, 5}, max_regions <- 2, SizeMod <- 8,
  MaxIds <- 4, next_id <- region_id

(* Two areas, at both ends of the canonical addresses and between, where   *)
(* the module itself has one area and calls of the page table              *)
Space == INSTANCE AddressSpace WITH
  Starts <- {0, 4, 9, 28, 96, 124}, Sizes <- {0, 3, 8}, Direct <- FALSE, MaxAreas <- 2

(* One driver for any vendor, one for any class, one that fits best *)
Driver(id, class, vendors, priority) ==
  [driver_id |-> id, supported_classes |-> {class}, supported_vendor_ids |-> vendors,
   priority |-> priority]

Device == INSTANCE Devices WITH
  Drivers <- {Driver(1, 1, {}, 2), Driver(2, 0, {7}, 1), Driver(3, 1, {7}, 1)},
  Classes <- {1, 3}, Vendors <- {7, 8}, MaxDevices <- 2,
  DiskNames <- {"d", "e"}, block_size <- 2, capacity <- 2, MaxDisks <- 2,
  Buffers <- {<<1, 2>>, <<3>>, <<1, 1, 2, 2>>}, Lbas <- {0, 1, 2},
  KEYBOARD_BUFFER_SIZE <- 3, Scancodes <- {30, 158}, MaxKeys <- 5,
  VGA_WIDTH <- 3, Bytes <- {"a", "b"}, Contexts <- {"t1", "t2"}, MaxLines <- 3,
  next_id <- device_id

ASSUME
  /\ Shm!ConstantsOK
  /\ Device!ConstantsOK

CfsParts == {"cfs classes", "cfs misuse"}
MemoryParts == {"frames", "all frames", "heap", "slab", "shared memory"}
SpaceParts == {"areas", "page table"}
DeviceParts == {"devices", "disks", "keyboard", "screen", "serial line"}

MCInit ==
  /\ part \in CfsParts \cup MemoryParts \cup SpaceParts \cup DeviceParts
  /\ Init
  /\ FramesInit
  /\ BumpInit
  /\ SlabInit
  /\ Shm!Init
  /\ SpaceInit
  /\ Device!Init
  /\ kind = "Kernel" => part = "areas"

(* CFS tasks are of two priority classes and callers keep the contract, or *)
(* of one and callers may break it.  Bound: few timer ticks and calls of   *)
(* schedule in one behaviour.                                              *)
CfsNext ==
  /\ Next
  /\ ticks' + total_schedules' <= 2
  /\ \/ part = "cfs classes" /\ misuses' = 0 /\ context_switches' <= 1
     \/ /\ part = "cfs misuse"
        /\ \A i \in DOMAIN tasks' : tasks'[i].class = 0

MemoryNext ==
  \/ /\ part = "frames"
     /\ FramesNext
     /\ UNCHANGED <<bumpvars, slabvars, shmvars>>
  \/ /\ part = "all frames"
     /\ FramesAll!FramesNext
     /\ UNCHANGED <<bumpvars, slabvars, shmvars>>
  \/ /\ part = "heap"
     /\ BumpNext
     /\ UNCHANGED <<framevars, slabvars, shmvars>>
  \/ /\ part = "slab"
     /\ SlabNext
     /\ UNCHANGED <<framevars, bumpvars, shmvars>>
  \/ /\ part = "shared memory"
     /\ Shm!Next
     /\ UNCHANGED <<framevars, bumpvars, slabvars>>

DriverNext ==
  \/ /\ part = "devices" /\ Device!DeviceNext
     /\ UNCHANGED <<blockvars, keyvars, screenvars, serialvars>>
  \/ /\ part = "disks" /\ Device!BlockNext
     /\ UNCHANGED <<devicevars, keyvars, screenvars, serialvars>>
  \/ /\ part = "keyboard" /\ Device!KeyNext
     /\ UNCHANGED <<devicevars, blockvars, screenvars, serialvars>>
  \/ /\ part = "screen" /\ Device!ScreenNext
     /\ UNCHANGED <<devicevars, blockvars, keyvars, serialvars>>
  \/ /\ part = "serial line" /\ Device!SerialNext
     /\ UNCHANGED <<devicevars, blockvars, keyvars, screenvars>>

MCNext ==
  /\ UNCHANGED part
  /\ \/ CfsNext /\ UNCHANGED <<memoryvars, spacevars, drivervars>>
     \/ MemoryNext /\ UNCHANGED <<cfsvars, spacevars, drivervars>>
     \/ part = "areas" /\ Space!SpaceNext /\ UNCHANGED <<cfsvars, memoryvars, drivervars>>
     \/ part = "page table" /\ SpaceNext
        /\ UNCHANGED <<cfsvars, memoryvars, drivervars>>
     \/ DriverNext /\ UNCHANGED <<cfsvars, memoryvars, spacevars>>

MCSpec == MCInit /\ [][MCNext]_mcvars

-----------------------------------------------------------------------------

(* The types of the parts' variables, and the inductive invariants of the  *)
(* CFS scheduler, the frame allocator, the heap, the slab caches and the   *)
(* page table; the other properties of these are stated in their modules.  *)
TypesOK ==
  CASE part \in CfsParts                 -> IInv
    [] part = "frames"                   -> FramesInv
    [] part = "all frames"               -> FramesAll!FramesInv
    [] part = "heap"                     -> BumpInv
    [] part = "slab"                     -> SlabInv
    [] part = "shared memory"            -> Shm!TypeOK
    [] part \in SpaceParts               -> SpaceTypeOK /\ PageTableInv(Levels)
    [] part \in DeviceParts              -> Device!TypeOK

(* Areas are disjoint, the pages mapped are theirs and those a failed      *)
(* map_area left, and what find_free_area finds is free.  The boot         *)
(* loader's map is added up right.  used_size is the size of the shared    *)
(* regions in the table, through any order of allocations, resizes,        *)
(* transfers and deallocations.  The driver bound is the first of the best *)
(* that fit, a disk holds what was last written to it, keys come out in    *)
(* the order they went in, the screen shows the line that is printed, and  *)
(* lines on the serial line are whole.                                     *)
PartsExact ==
  /\ part \in MemoryParts => Shm!UsedExact
  /\ part = "page table" => AreasMapped
  /\ part = "areas" => Space!AreasMapped /\ Space!FreeIsFree
  /\ part = "frames" /\ allocated = {} => Space!MemoryMapExact
  /\ part \in DeviceParts =>
       /\ Device!BestDriverFits /\ Device!DisksExact /\ Device!KeysInOrder
       /\ Device!ScreenShowsLine /\ Device!LinesWhole

=============================================================================

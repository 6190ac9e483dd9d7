----------------------------- MODULE AddressSpace -----------------------------
(***************************************************************************)
(* Virtual memory, kernel/src/memory/vm: the addresses of addr.rs, the     *)
(* entries of pte.rs, the page table of four levels of page_table.rs, and  *)
(* the areas of address_space.rs on top of it; and the account of physical *)
(* memory that the boot loader's map gives, boot/multiboot2.rs.            *)
(*                                                                         *)
(* An address has an offset in its page, an index per level and bits on    *)
(* top, 12, 9 each and 16 in the program.  The lower and the upper half of *)
(* what the indexes tell apart are canonical, at both ends of the          *)
(* addresses.  The low bits of an entry are its flags, PRESENT and         *)
(* WRITABLE.  Sums wrap around, as they do in a release build.             *)
(***************************************************************************)
EXTENDS Integers, FiniteSets, Sequences, SequencesExt

CONSTANTS
  PAGE_SIZE, ENTRY_COUNT, AddrMod,
  PhysUsed,  \* the physical addresses direct calls of map use
  FlagsUsed, \* the flags direct calls use
  Starts,    \* the addresses that calls use
  Sizes,     \* the sizes of areas, in bytes
  Direct,    \* the page table is also used directly, as its field is public
  MaxAreas   \* bound: areas at a time

(* The addresses below the bit that a canonical address repeats on top     *)
SignBit == PAGE_SIZE * ENTRY_COUNT * ENTRY_COUNT * ENTRY_COUNT * (ENTRY_COUNT \div 2)

ASSUME SpaceAssumption ==
  /\ PAGE_SIZE \in Nat \ {0}
  /\ ENTRY_COUNT \in Nat \ {0} /\ ENTRY_COUNT % 2 = 0
  /\ AddrMod \in Nat \ {0} /\ AddrMod % (2 * SignBit) = 0
  /\ PhysUsed \subseteq Nat /\ FlagsUsed \subseteq Nat
  /\ Starts \subseteq 0 .. AddrMod - 1
  /\ Sizes \subseteq Nat
  /\ Direct \in BOOLEAN
  /\ MaxAreas \in Nat

VARIABLES
  kind,     \* Kernel or User
  tables,   \* table 0 is the PML4, table k + 1 is intermediate_tables[k]
  areas,
  mapped,   \* history: what the page table should hold, as a plain function
  left      \* history: pages left behind by a map_area that failed

spacevars == <<kind, tables, areas, mapped, left>>

-----------------------------------------------------------------------------
(* Addresses *)

PageOffset(addr) == addr % PAGE_SIZE
AlignDown(addr) == addr - PageOffset(addr)
AlignUpPage(addr) == AlignDown(addr + PAGE_SIZE - 1)
IsAligned(addr) == PageOffset(addr) = 0

IsCanonical(addr) ==
  IF (addr \div SignBit) % 2 = 0 THEN addr < SignBit ELSE addr >= AddrMod - SignBit

Pages(start, end) == {addr \in start .. end - 1 : IsAligned(addr)}

-----------------------------------------------------------------------------
(* The memory map: a region is [base_addr, length, region_type]            *)

MaxRegions == 2        \* 32 in the program
UsableType == 1
RegionType(number) == IF number \in 1 .. 7 THEN number ELSE 0

EndAddr(region) == region.base_addr + region.length
IsUsable(region) == region.region_type = UsableType

(* The whole frames of a region *)
StartFrame(region) == AlignUpPage(region.base_addr)
EndFrame(region) == AlignDown(EndAddr(region))
RegionFrames(region) ==
  IF EndFrame(region) > StartFrame(region)
  THEN (EndFrame(region) - StartFrame(region)) \div PAGE_SIZE ELSE 0

(* The frame an address is in, and where a frame begins *)
ContainingFrame(addr) == addr \div PAGE_SIZE
StartAddress(frame) == frame * PAGE_SIZE

(* from_test_data: the regions there is room for, and their totals *)
Summary(regions) ==
  LET kept == SubSeq(regions, 1, IF Len(regions) < MaxRegions THEN Len(regions) ELSE MaxRegions)
  IN FoldLeft(LAMBDA sum, region :
                IF IsUsable(region)
                THEN [sum EXCEPT !.total_usable_bytes = @ + region.length,
                                 !.total_usable_frames = @ + RegionFrames(region)]
                ELSE sum,
              [memory_regions |-> kept, total_usable_bytes |-> 0, total_usable_frames |-> 0], kept)

UsableRegions(summary) == SelectSeq(summary.memory_regions, IsUsable)

-----------------------------------------------------------------------------
(* Entries.  An unused one is 0. *)

PRESENT == 1
WRITABLE == 2
PhysAddr(entry) == AlignDown(entry)
SetEntry(phys, flags) == AlignDown(phys) + (flags % PAGE_SIZE)

-----------------------------------------------------------------------------
(* The page table *)

(* The addresses under one entry of a table of a level *)
Span(level) ==
  CASE level = 3 -> PAGE_SIZE
    [] level = 2 -> PAGE_SIZE * ENTRY_COUNT
    [] level = 1 -> PAGE_SIZE * ENTRY_COUNT * ENTRY_COUNT
    [] level = 0 -> PAGE_SIZE * ENTRY_COUNT * ENTRY_COUNT * ENTRY_COUNT

(* Mutated form of IndexFromAddr: the shift of the last level is that of   *)
(* the one before.                                                         *)
IndexFromAddrShifted(addr, level) == (addr \div Span(IF level = 3 THEN 2 ELSE level)) % ENTRY_COUNT

IndexFromAddr(addr, level) == (addr \div Span(level)) % ENTRY_COUNT

NewTable == [i \in 0 .. ENTRY_COUNT - 1 |-> 0]

(* get_or_create_next_table: one step down *)
Down(walk, addr, level) ==
  LET i == IndexFromAddr(addr, level)
      n == Cardinality(DOMAIN walk.tables)
  IN IF walk.tables[walk.at][i] # 0 THEN [walk EXCEPT !.at = walk.tables[walk.at][i]]
     ELSE [tables |-> [t \in 0 .. n |-> IF t = n THEN NewTable
                                        ELSE IF t = walk.at THEN [walk.tables[t] EXCEPT ![i] = n]
                                        ELSE walk.tables[t]],
           at |-> n]

(* The PT of an address, with what had to be allocated on the way *)
Descend(from, addr) == Down(Down(Down([tables |-> from, at |-> 0], addr, 0), addr, 1), addr, 2)

(* The tables and the entry of an address, 0 if one is missing on the way *)
Follow(from, at, addr, level) == IF at = 0 THEN 0 ELSE from[at][IndexFromAddr(addr, level)]
Pdpt(from, addr) == from[0][IndexFromAddr(addr, 0)]
Pd(from, addr) == Follow(from, Pdpt(from, addr), addr, 1)
Pt(from, addr) == Follow(from, Pd(from, addr), addr, 2)
Lookup(from, addr) == Follow(from, Pt(from, addr), addr, 3)

MapError(from, virt) ==
  IF ~IsCanonical(virt) \/ ~IsAligned(virt) THEN "InvalidAddress"
  ELSE LET walk == Descend(from, virt)
       IN IF walk.tables[walk.at][IndexFromAddr(virt, 3)] # 0 THEN "AlreadyMapped" ELSE "Ok"

(* map; the tables it needed stay also when the page was mapped already *)
Map(from, virt, phys, flags) ==
  IF MapError(from, virt) = "InvalidAddress" THEN from
  ELSE LET walk == Descend(from, virt)
       IN IF MapError(from, virt) # "Ok" THEN walk.tables
          ELSE [walk.tables EXCEPT ![walk.at][IndexFromAddr(virt, 3)] = SetEntry(phys, flags)]

(* The page's entry becomes the given one *)
Store(from, virt, entry) ==
  LET walk == Descend(from, virt)
  IN [from EXCEPT ![walk.at][IndexFromAddr(virt, 3)] = entry]

UnmapError(virt) ==
  IF ~IsCanonical(virt) \/ ~IsAligned(virt) THEN "InvalidAddress"
  ELSE IF Lookup(tables, virt) = 0 THEN "NotMapped" ELSE "Ok"

(* Absent for an address that is not canonical or not mapped *)
Absent == -1
Translate(addr) ==
  IF ~IsCanonical(addr) \/ Lookup(tables, addr) = 0 THEN Absent ELSE PhysAddr(Lookup(tables, addr)) + PageOffset(addr)

(* The entries of the last level that are in use *)
UsedIn(set) == {tables[t][i] : t \in set, i \in 0 .. ENTRY_COUNT - 1} \ {0}
UsedEntries ==
  {entry \in UsedIn(UsedIn(UsedIn({0}))) \X (0 .. ENTRY_COUNT - 1) : tables[entry[1]][entry[2]] # 0}
MappingCount == Cardinality(UsedEntries)

-----------------------------------------------------------------------------
(* Areas *)

SpaceInit ==
  /\ kind \in {"Kernel", "User"}
  /\ tables = [t \in {0} |-> NewTable]
  /\ areas = <<>>
  /\ mapped = <<>>
  /\ left = {}

AlignedSize(size) == IF AlignUpPage(size) = 0 THEN PAGE_SIZE ELSE AlignUpPage(size)

IsOverlap(start, end) ==
  \E i \in DOMAIN areas : start < areas[i].end /\ end > areas[i].start

VmFlagsToPtFlags(write) == PRESENT + IF write THEN WRITABLE ELSE 0

(* The pages of an area, mapped to themselves until one fails *)
MapPages(start, end, flags) ==
  FoldLeft(LAMBDA run, virt :
             IF ~run.ok THEN run
             ELSE IF MapError(run.tables, virt) = "Ok"
             THEN [run EXCEPT !.tables = Map(run.tables, virt, virt, flags), !.done = Append(@, virt)]
             ELSE [run EXCEPT !.tables = Map(run.tables, virt, virt, flags), !.ok = FALSE],
           [ok |-> TRUE, tables |-> tables, done |-> <<>>],
           SetToSortSeq(Pages(start, end), <))

WithPages(pages, flags) ==
  [p \in DOMAIN mapped \cup pages |-> IF p \in pages THEN SetEntry(p, flags) ELSE mapped[p]]

MapArea(start, size, write) ==
  LET end == (start + AlignedSize(size)) % AddrMod
      flags == VmFlagsToPtFlags(write)
      run == MapPages(start, end, flags)
  IN /\ Len(areas) < MaxAreas
     /\ IsCanonical(start) /\ IsAligned(start)
     /\ ~IsOverlap(start, end)
     /\ tables' = run.tables
     /\ mapped' = WithPages(ToSet(run.done), flags)
     /\ IF run.ok THEN areas' = Append(areas, [start |-> start, end |-> end]) /\ UNCHANGED left
        ELSE left' = left \cup ToSet(run.done) /\ UNCHANGED areas
     /\ UNCHANGED kind

WithoutPages(pages) == [p \in DOMAIN mapped \ pages |-> mapped[p]]

(* NotMapped unless an area begins there; pages that are gone are no error *)
UnmapArea(start) ==
  \E k \in DOMAIN areas :
    /\ areas[k].start = start /\ \A j \in 1 .. k - 1 : areas[j].start # start
    /\ LET pages == Pages(start, areas[k].end)
       IN /\ tables' = FoldLeft(LAMBDA from, virt : IF Lookup(tables, virt) = 0 THEN from ELSE Store(from, virt, 0),
                                tables, SetToSortSeq(pages, <))
          /\ mapped' = WithoutPages(pages)
          /\ left' = left \ pages
    /\ areas' = RemoveAt(areas, k)
    /\ UNCHANGED kind

SearchStart == IF kind = "Kernel" THEN AddrMod - SignBit ELSE PAGE_SIZE
MaxAddr == IF kind = "Kernel" THEN AddrMod - 1 ELSE SignBit - 1

(* Mutated form of SortedAreas: in the order in which they were mapped *)
SortedAreasAsMapped == areas

SortedAreas == SortSeq(areas, LAMBDA a, b : a.start < b.start)

(* The first gap that is large enough, or behind the last area: each step  *)
(* goes on from the end of the area, even below the start of the search    *)
FindFreeArea(size) ==
  LET need == AlignedSize(size)
      search == FoldLeft(LAMBDA s, area : IF s.found # Absent THEN s
                                          ELSE IF area.start - s.prev >= need THEN [s EXCEPT !.found = s.prev]
                                          ELSE [s EXCEPT !.prev = area.end],
                         [found |-> Absent, prev |-> SearchStart], SortedAreas)
  IN IF search.found # Absent THEN search.found
     ELSE IF MaxAddr - search.prev >= need THEN search.prev ELSE Absent

(* The page table by itself *)
MapPage(virt, phys, flags) ==
  /\ MapError(tables, virt) # "InvalidAddress"
  /\ tables' = Map(tables, virt, phys, flags)
  /\ mapped' = IF MapError(tables, virt) # "Ok" THEN mapped
               ELSE [p \in DOMAIN mapped \cup {virt} |->
                       IF p = virt THEN SetEntry(phys, flags) ELSE mapped[p]]
  /\ UNCHANGED <<kind, areas, left>>

UnmapPage(virt) ==
  /\ UnmapError(virt) = "Ok"
  /\ tables' = Store(tables, virt, 0)
  /\ mapped' = WithoutPages({virt})
  /\ left' = left \ {virt}
  /\ UNCHANGED <<kind, areas>>

(* update_flags: no flags at physical address 0 make the entry unused *)
UpdateFlags(virt, flags) ==
  /\ UnmapError(virt) = "Ok"
  /\ LET entry == SetEntry(PhysAddr(Lookup(tables, virt)), flags)
     IN /\ tables' = Store(tables, virt, entry)
        /\ mapped' = IF entry = 0 THEN WithoutPages({virt}) ELSE [mapped EXCEPT ![virt] = entry]
  /\ UNCHANGED <<kind, areas, left>>

DirectNext ==
  \E virt \in Starts :
    \/ \E phys \in PhysUsed, flags \in FlagsUsed : MapPage(virt, phys, flags)
    \/ UnmapPage(virt)
    \/ \E flags \in FlagsUsed : UpdateFlags(virt, flags)

SpaceNext ==
  \/ \E start \in Starts, size \in Sizes, write \in BOOLEAN : MapArea(start, size, write)
  \/ \E start \in Starts : UnmapArea(start)
  \/ Direct /\ DirectNext

DirectSpec == SpaceInit /\ [][DirectNext]_spacevars

-----------------------------------------------------------------------------

SpaceTypeOK ==
  /\ tables \in [0 .. Cardinality(DOMAIN tables) - 1 -> [0 .. ENTRY_COUNT - 1 -> 0 .. AddrMod - 1]]
  /\ areas \in Seq([start : 0 .. AddrMod - 1, end : 0 .. AddrMod - 1])

(* The entry is a table of the next level, and no other entry is the same *)
Child(from, level, t, i) ==
  /\ from[t][i] \in DOMAIN from /\ level[from[t][i]] = level[t] + 1
  /\ \A u \in DOMAIN from, j \in 0 .. ENTRY_COUNT - 1 :
       level[u] < 3 /\ from[u][j] = from[t][i] => u = t /\ j = i

(* The tables from the root on, each of one level, without a way around *)
Tree(from, level) ==
  /\ \E last \in DOMAIN from : DOMAIN from = 0 .. last
  /\ \A t \in DOMAIN from : from[t] \in [0 .. ENTRY_COUNT - 1 -> Nat] /\ level[t] \in 0 .. 3
  /\ level[0] = 0
  /\ \A t \in DOMAIN from, i \in 0 .. ENTRY_COUNT - 1 :
       level[t] < 3 /\ from[t][i] # 0 => Child(from, level, t, i)

MappablePages == {p \in Pages(0, AddrMod) : IsCanonical(p)}
Held(page) == IF page \in DOMAIN mapped THEN mapped[page] ELSE 0

(* The inductive invariant of the page table, for the levels of its tables *)
PageTableInv(level) ==
  /\ Tree(tables, level)
  /\ mapped \in [DOMAIN mapped -> Nat] /\ DOMAIN mapped \subseteq MappablePages
  /\ \A page \in MappablePages : Lookup(tables, page) = Held(page)

(* The levels, from the entries *)
Levels ==
  LET first == UsedIn({0})
      second == UsedIn(first)
  IN [t \in DOMAIN tables |-> IF t = 0 THEN 0 ELSE IF t \in first THEN 1 ELSE IF t \in second THEN 2 ELSE 3]

(* The four levels are a map from pages to entries: every address finds    *)
(* just what was last stored for its page, no two pages share an entry,    *)
(* and mapping_count, which goes down all tables, finds the pages mapped.  *)
TablesAreAMap ==
  /\ \A addr \in 0 .. AddrMod - 1 :
       Translate(addr) = IF AlignDown(addr) \in DOMAIN mapped /\ mapped[AlignDown(addr)] # 0
                         THEN PhysAddr(mapped[AlignDown(addr)]) + PageOffset(addr) ELSE Absent
  /\ MappingCount = Cardinality({p \in DOMAIN mapped : mapped[p] # 0})

(* Areas are disjoint, and if the page table is left to them, the pages    *)
(* mapped are those of the areas and the ones an area left that failed at  *)
(* the end of the canonical addresses.                                     *)
AreasMapped ==
  /\ \A i, j \in DOMAIN areas :
       i # j => Pages(areas[i].start, areas[i].end) \cap Pages(areas[j].start, areas[j].end) = {}
  /\ ~Direct => DOMAIN mapped = left \cup UNION {Pages(areas[i].start, areas[i].end) : i \in DOMAIN areas}

(* What find_free_area finds is free, and where it should look, unless an  *)
(* area lies outside that range or ends at the very end of the addresses.  *)
FreeIsFree ==
  (\A i \in DOMAIN areas : areas[i].start >= SearchStart /\ areas[i].end \in SearchStart .. MaxAddr + 1) =>
    \A size \in Sizes :
      LET found == FindFreeArea(size)
          end == found + AlignedSize(size)
      IN found # Absent =>
           ~IsOverlap(found, end) /\ found >= SearchStart /\ end <= MaxAddr

(* The frames counted are those that lie in a usable region as a whole, of *)
(* the regions there was room for; only regions that share a frame count   *)
(* it twice.  No more bytes are in these frames than are usable.           *)
MemoryMapExact ==
  LET Regions == [base_addr : {0, 1, 4, 6}, length : {0, 3, 4, 7, 9}, region_type : {RegionType(n) : n \in {1, 2, 8}}]
      Whole(region) ==
        {frame \in 0 .. ContainingFrame(EndAddr(region)) :
           /\ IsUsable(region) /\ StartAddress(frame) >= region.base_addr
           /\ StartAddress(frame + 1) <= EndAddr(region)}
  IN \A first, second \in Regions, more \in BOOLEAN :
       LET summary == Summary(<<first, second>> \o IF more THEN <<first>> ELSE <<>>)
           shared == Cardinality(Whole(first) \cap Whole(second))
       IN /\ summary.total_usable_frames = Cardinality(Whole(first) \cup Whole(second)) + shared
          /\ summary.total_usable_frames * PAGE_SIZE <= summary.total_usable_bytes
          /\ Len(UsableRegions(summary)) = Cardinality({i \in 1 .. 2 : IsUsable(<<first, second>>[i])})

=============================================================================

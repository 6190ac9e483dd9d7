----------------------------- MODULE TensorMemory -----------------------------
(***************************************************************************)
(* Memory for tensors, crates/omniagent-memory/src/lib.rs: regions that    *)
(* place blocks by first fit, the pool of regions with the tensors that    *)
(* are registered in it, and the operations on tensors, on quantised       *)
(* values and on floats of 16 bits.                                        *)
(*                                                                         *)
(* Differences of offsets are unsigned and wrap at AddrMod in a release    *)
(* build, as those of the code do at 2^64.  A tensor's data is a sequence  *)
(* of values, one for each element, and the values are whole numbers; the  *)
(* fractions quantising makes of them are exact.                           *)
(***************************************************************************)
EXTENDS Integers, SequencesExt

CONSTANTS
  Capacity,      \* of the pool
  RegionSizes,   \* sizes that regions are created with
  BlockSizes,    \* sizes that blocks are requested with
  ALIGNMENT,     \* alignment of a region: 16
  Alignments,    \* alignments that blocks are requested with
  AddrMod,
  TensorNames,
  Tensors,       \* tensors the operations on tensors are applied to
  QuantRanges,   \* ends of ranges of values to quantise
  MaxRegions, MaxBlocks   \* bounds

PowersOfTwo == {1, 2, 4, 8, 16, 32}

ConstantsOK ==
  /\ {Capacity, AddrMod, MaxRegions, MaxBlocks} \subseteq Nat
  /\ ALIGNMENT \in PowersOfTwo /\ Alignments \subseteq Nat
  /\ RegionSizes \cup BlockSizes \subseteq 0 .. AddrMod - 1
  /\ \A t \in Tensors : DOMAIN t = {"dims", "dtype", "data"}
  /\ QuantRanges \subseteq Int

VARIABLES
  regions,       \* id -> region
  tensors,       \* name -> size of its data
  total_used, next_region_id,
  underflow      \* a difference of offsets has wrapped (for the properties)

vars == <<regions, tensors, total_used, next_region_id, underflow>>

-----------------------------------------------------------------------------
(* MemoryRegion                                                            *)

NewRegion(size) == [size |-> size, used |-> 0, allocated_blocks |-> <<>>]

Block(offset, size) == [offset |-> offset, size |-> size]

AlignUp(offset, alignment) == ((offset + alignment - 1) \div alignment) * alignment

ValidAlignment(alignment) == alignment \in PowersOfTwo

Larger(a, b) == IF a > b THEN a ELSE b

Sorted(blocks) == SortSeq(blocks, LAMBDA b, c : b.offset < c.offset)

(* Where first fit puts a block: behind each of the blocks in turn, as far *)
(* as the next one or the end of the region begins.  What is free there is *)
(* a difference that wraps where aligning went past that beginning.        *)
FirstFit(region, size, alignment) ==
  LET blocks == Sorted(region.allocated_blocks)
      align == Larger(alignment, ALIGNMENT)
      From(i) == AlignUp(IF i = 1 THEN 0 ELSE blocks[i - 1].offset + blocks[i - 1].size, align)
      Until(i) == IF i <= Len(blocks) THEN blocks[i].offset ELSE region.size
      gaps == {i \in 1 .. Len(blocks) + 1 : (Until(i) - From(i)) % AddrMod >= size}
      first == CHOOSE i \in gaps : \A j \in gaps : i <= j
      looked == IF gaps = {} THEN 1 .. Len(blocks) + 1 ELSE 1 .. first
  IN  [found |-> gaps # {}, offset |-> IF gaps = {} THEN 0 ELSE From(first),
       wraps |-> \E i \in looked : Until(i) < From(i)]

(* Mutated form of Placed: the bytes of the block are not counted. *)
PlacedUncounted(region, offset, size) ==
  [region EXCEPT !.allocated_blocks = Append(Sorted(@), Block(offset, size))]

Placed(region, offset, size) ==
  [region EXCEPT !.allocated_blocks = Append(Sorted(@), Block(offset, size)), !.used = @ + size]

(* Sorting is all that a call that fails leaves behind *)
Allocated(region, size, alignment) ==
  LET fit == FirstFit(region, size, alignment)
  IN  IF fit.found THEN Placed(region, fit.offset, size)
      ELSE [region EXCEPT !.allocated_blocks = Sorted(@)]

(* The block is looked up by its offset and its size *)
BlockAt(region, offset, size) ==
  SelectInSeq(region.allocated_blocks, LAMBDA b : b = Block(offset, size))

(* compact: one block as large as all of them takes their place *)
TotalSize(blocks) == FoldLeft(LAMBDA n, b : n + b.size, 0, blocks)

Compacted(region) ==
  LET total == TotalSize(region.allocated_blocks)
  IN  [region EXCEPT !.used = total,
                     !.allocated_blocks = IF total > 0 THEN <<Block(0, total)>> ELSE <<>>]

(* fragmentation, as a number of bytes *)
Gaps(region) ==
  LET blocks == Sorted(region.allocated_blocks)
      Gap(i) == LET end == IF i = 1 THEN 0 ELSE blocks[i - 1].offset + blocks[i - 1].size
                IN  IF blocks[i].offset > end THEN blocks[i].offset - end ELSE 0
  IN  FoldLeft(LAMBDA n, i : n + Gap(i), 0, [i \in DOMAIN blocks |-> i])

-----------------------------------------------------------------------------
(* MemoryPool                                                              *)

SumOver(S, size(_)) == FoldSet(LAMBDA x, n : n + size(x), 0, S)

CreateRegion(size) ==
  /\ SumOver(DOMAIN regions, LAMBDA id : regions[id].size) + size <= Capacity
  /\ next_region_id <= MaxRegions
  /\ regions' = (next_region_id :> NewRegion(size)) @@ regions
  /\ next_region_id' = next_region_id + 1
  /\ UNCHANGED <<tensors, total_used, underflow>>

(* The tensors that were registered in it stay *)
RemoveRegion(id) ==
  /\ id \in DOMAIN regions
  /\ regions' = [i \in DOMAIN regions \ {id} |-> regions[i]]
  /\ UNCHANGED <<tensors, total_used, next_region_id, underflow>>

Allocate(id, size, alignment) ==
  /\ id \in DOMAIN regions /\ ValidAlignment(alignment)
  /\ Len(regions[id].allocated_blocks) < MaxBlocks
  /\ regions' = [regions EXCEPT ![id] = Allocated(@, size, alignment)]
  /\ underflow' = (underflow \/ FirstFit(regions[id], size, alignment).wraps)

AllocateBlock(id, size, alignment) ==
  Allocate(id, size, alignment) /\ UNCHANGED <<tensors, total_used, next_region_id>>

Deallocate(id, offset, size) ==
  /\ id \in DOMAIN regions
  /\ LET place == BlockAt(regions[id], offset, size)
     IN  /\ place # 0
         /\ regions' = [regions EXCEPT ![id].allocated_blocks = RemoveAt(@, place),
                                       ![id].used = Larger(@ - size, 0)]
  /\ UNCHANGED <<tensors, total_used, next_region_id, underflow>>

(* The place of the tensor's block is not kept *)
RegisterTensor(name, size, id) ==
  /\ name \notin DOMAIN tensors
  /\ Allocate(id, size, ALIGNMENT)
  /\ IF FirstFit(regions[id], size, ALIGNMENT).found
       THEN tensors' = (name :> size) @@ tensors /\ total_used' = total_used + size
       ELSE UNCHANGED <<tensors, total_used>>
  /\ UNCHANGED next_region_id

(* release_tensor does not know the region: the block stays *)
ReleaseTensor(name) ==
  /\ name \in DOMAIN tensors
  /\ tensors' = [n \in DOMAIN tensors \ {name} |-> tensors[n]]
  /\ total_used' = Larger(total_used - tensors[name], 0)
  /\ UNCHANGED <<regions, next_region_id, underflow>>

Compact ==
  /\ regions' = [id \in DOMAIN regions |-> Compacted(regions[id])]
  /\ UNCHANGED <<tensors, total_used, next_region_id, underflow>>

Init ==
  /\ regions = <<>> /\ tensors = <<>>
  /\ total_used = 0 /\ next_region_id = 1 /\ underflow = FALSE

(* Bound: nothing is explored behind a difference that wrapped *)
Next ==
  /\ ~underflow
  /\ \/ \E size \in RegionSizes : CreateRegion(size)
     \/ \E id \in DOMAIN regions : RemoveRegion(id)
     \/ \E id \in DOMAIN regions, size \in BlockSizes, align \in Alignments :
          AllocateBlock(id, size, align)
     \/ \E id \in DOMAIN regions : \E b \in ToSet(regions[id].allocated_blocks) :
          Deallocate(id, b.offset, b.size)
     \/ \E name \in TensorNames, id \in DOMAIN regions, size \in BlockSizes :
          RegisterTensor(name, size, id)
     \/ \E name \in TensorNames : ReleaseTensor(name)
     \/ Compact

Spec == Init /\ [][Next]_vars

-----------------------------------------------------------------------------
(* Tensors                                                                 *)

QuantType == {"Q4", "Q8", "F16", "B1", "F32", "U8", "Mixed"}
BytesPerElement(type) == CASE type = "F16" -> 2 [] type \in {"F32", "Mixed"} -> 4 [] OTHER -> 1
IsQuantized(type) == type \in {"Q4", "Q8", "B1", "U8"}

NumElements(dims) == FoldLeft(LAMBDA n, d : n * d, 1, dims)
NewF32(dims, data) == [dims |-> dims, dtype |-> "F32", data |-> data]
Refused(error) == [error |-> error]
IsTensor(t) == "error" \notin DOMAIN t

(* as_f32 gives what there is of the elements the shape promises *)
AsF32(t) ==
  SubSeq(t.data, 1, IF NumElements(t.dims) < Len(t.data) THEN NumElements(t.dims) ELSE Len(t.data))

Reshape(t, dims) ==
  IF NumElements(dims) # NumElements(t.dims) THEN Refused("InvalidShape")
  ELSE [t EXCEPT !.dims = dims]

(* transpose indexes the data: with fewer than the shape promises it panics *)
Transpose(t) ==
  IF Len(t.dims) # 2 THEN Refused("InvalidShape")
  ELSE LET rows == t.dims[1]
           cols == t.dims[2]
           data == AsF32(t)
       IN  IF Len(data) < rows * cols THEN Refused("panic")
           ELSE NewF32(<<cols, rows>>,
                       [k \in 1 .. rows * cols |-> data[((k - 1) % rows) * cols + (k - 1) \div rows + 1]])

(* extract_slice: a range is the pair of its first and its end *)
RECURSIVE Extracted(_, _, _, _, _)
Extracted(data, dims, ranges, d, base) ==
  IF d > Len(dims) THEN IF base < Len(data) THEN <<data[base + 1]>> ELSE <<>>
  ELSE LET stride == NumElements(SubSeq(dims, d + 1, Len(dims)))
           first == ranges[d][1]
       IN  FlattenSeq([i \in 1 .. ranges[d][2] - first |->
                         Extracted(data, dims, ranges, d + 1, base + (first + i - 1) * stride)])

Slice(t, ranges) ==
  IF Len(ranges) # Len(t.dims) \/ \E d \in DOMAIN ranges : ranges[d][2] > t.dims[d]
    THEN Refused("InvalidShape")
  ELSE NewF32([d \in DOMAIN ranges |-> ranges[d][2] - ranges[d][1]],
              Extracted(AsF32(t), t.dims, ranges, 1, 0))

(* concat appends the data of one to that of the other, whatever the axis *)
Concat(t, u, axis) ==
  CASE axis > Len(t.dims) -> Refused("InvalidShape")
    [] axis <= Len(t.dims) /\ Len(u.dims) # Len(t.dims) -> Refused("IncompatibleType")
    [] OTHER ->
         IF \E d \in DOMAIN t.dims : d # axis /\ t.dims[d] # u.dims[d] THEN Refused("InvalidShape")
         ELSE NewF32([t.dims EXCEPT ![axis] = @ + u.dims[axis]], AsF32(t) \o AsF32(u))

-----------------------------------------------------------------------------
(* Quantised values.  A level of a range is width / steps wide, the value  *)
(* of a level the fraction <<level * width, steps>>.                       *)
Levels(type) ==
  CASE type = "Q4" -> <<0, 15>> [] type = "Q8" -> <<-128, 127>>
    [] type = "U8" -> <<0, 255>> [] type = "B1" -> <<0, 1>> [] OTHER -> <<0, 0>>
Steps(type) == Levels(type)[2] - Levels(type)[1]
Clamp(n, low, high) == IF n < low THEN low ELSE IF n > high THEN high ELSE n

(* round: halves away from zero *)
Round(n, d) == IF n >= 0 THEN (2 * n + d) \div (2 * d) ELSE -((2 * (-n) + d) \div (2 * d))

(* from_range: a range of one value is widened by 1 on both sides *)
FromRange(type, min, max) ==
  LET low == IF min = max THEN min - 1 ELSE min
      high == IF min = max THEN max + 1 ELSE max
  IN  [type |-> type, min |-> low, max |-> high,
       zero_point |-> Clamp(Round(Levels(type)[1] * (high - low) - low * Steps(type), high - low),
                            Levels(type)[1], Levels(type)[2])]

(* Not of the float types, whose bits are stored *)
Quantize(params, v) ==
  LET c == Clamp(v, params.min, params.max)
  IN  IF params.type = "B1" THEN (IF 2 * c >= params.min + params.max THEN 1 ELSE 0)
      ELSE Clamp(Round(c * Steps(params.type), params.max - params.min) + params.zero_point,
                 Levels(params.type)[1], Levels(params.type)[2])

Dequantize(params, q) ==
  IF params.type = "B1" THEN <<IF q = 1 THEN params.max ELSE params.min, 1>>
  ELSE <<(q - params.zero_point) * (params.max - params.min), Steps(params.type)>>

-----------------------------------------------------------------------------
(* Floats, as sign, exponent and fraction of 23 bits, of 10 in a half      *)

Float(sign, exp, frac) == [sign |-> sign, exp |-> exp, frac |-> frac]
Log2(n) == CHOOSE k \in 0 .. 30 : n \div 2^k = 1

(* The float of a whole number; what does not fit its fraction is dropped, *)
(* which matters to none of the numbers below                              *)
FloatOf(n) ==
  IF n = 0 THEN Float(0, 0, 0)
  ELSE LET m == IF n < 0 THEN -n ELSE n
           k == Log2(m)
       IN  Float(IF n < 0 THEN 1 ELSE 0, 127 + k,
                 IF k <= 23 THEN (m - 2^k) * 2^(23 - k) ELSE (m - 2^k) \div 2^(k - 23))

(* to_bits() as i32 *)
BitsOf(n) ==
  LET f == FloatOf(n) IN f.exp * 2^23 + f.frac + (IF f.sign = 1 THEN (-2147483647) - 1 ELSE 0)

F32ToF16(f) ==
  LET exp == f.exp - 127 + 15
  IN  IF exp <= 0 THEN Float(0, 0, 0)
      ELSE IF exp >= 31 THEN Float(f.sign, 31, 0) ELSE Float(f.sign, exp, f.frac \div 2^13)

F16ToF32(h) ==
  CASE h.exp = 0 /\ h.frac = 0 -> Float(0, 0, 0)
    [] h.exp = 0 /\ h.frac # 0 -> LET k == Log2(h.frac)
                                 IN  Float(h.sign, 127 - 24 + k, (h.frac - 2^k) * 2^(23 - k))
    [] h.exp = 31 -> IF h.frac = 0 THEN Float(h.sign, 255, 0) ELSE Float(0, 255, 2^22)
    [] OTHER -> Float(h.sign, h.exp - 15 + 127, h.frac * 2^13)

-----------------------------------------------------------------------------
(* Tensors of quantised values                                             *)

(* quantize: to a float type the bits of a value are stored as a number *)
StoredAs(params, v) ==
  CASE params.type = "F16" -> F32ToF16(FloatOf(BitsOf(v)))
    [] params.type \in {"F32", "Mixed"} -> FloatOf(BitsOf(v))
    [] params.type = "Q8" -> Quantize(params, v) % 256
    [] OTHER -> Quantize(params, v)

QuantizeTensor(t, type) ==
  IF t.dtype # "F32" THEN Refused("IncompatibleType")
  ELSE LET data == AsF32(t)
           params == IF data = <<>> THEN FromRange(type, 0, 0)
                     ELSE FromRange(type, Min(ToSet(data)), Max(ToSet(data)))
       IN  [dims |-> t.dims, dtype |-> type, quant_params |-> params,
            data |-> [i \in DOMAIN data |-> StoredAs(params, data[i])]]

(* read_quant_values, then dequantize: the bits of a float are its value *)
ReadAs(params, b) ==
  CASE params.type = "F16" -> F16ToF32(b)
    [] params.type = "Mixed" -> b
    [] params.type = "Q8" -> Dequantize(params, IF b >= 128 THEN b - 256 ELSE b)
    [] OTHER -> Dequantize(params, b)

DequantizeTensor(t) ==
  IF t.dtype = "F32" THEN t
  ELSE IF "quant_params" \notin DOMAIN t THEN Refused("QuantizationError")
  ELSE NewF32(t.dims, [i \in DOMAIN AsF32(t) |-> ReadAs(t.quant_params, t.data[i])])

-----------------------------------------------------------------------------

(* The types of the variables. *)
TypeOK ==
  /\ DOMAIN regions \subseteq 1 .. next_region_id - 1
  /\ \A id \in DOMAIN regions :
       regions[id].size \in RegionSizes /\ regions[id].used \in Nat
  /\ DOMAIN tensors \subseteq TensorNames
  /\ total_used \in Nat /\ underflow \in BOOLEAN

Apart(blocks) ==
  \A i, j \in DOMAIN blocks : i # j =>
    \/ blocks[i].offset + blocks[i].size <= blocks[j].offset
    \/ blocks[j].offset + blocks[j].size <= blocks[i].offset

(* A region counts the bytes of its blocks, which are apart and within it  *)
(* as long as no difference has wrapped; the pool counts the bytes of its  *)
(* tensors, and its regions are not larger than it is.                     *)
RegionsExact ==
  /\ \A id \in DOMAIN regions :
       /\ regions[id].used = TotalSize(regions[id].allocated_blocks)
       /\ ~underflow =>
            /\ Apart(regions[id].allocated_blocks)
            /\ regions[id].used + Gaps(regions[id]) <= regions[id].size
            /\ \A b \in ToSet(regions[id].allocated_blocks) :
                 b.offset + b.size <= regions[id].size
  /\ total_used = SumOver(DOMAIN tensors, LAMBDA n : tensors[n])
  /\ SumOver(DOMAIN regions, LAMBDA id : regions[id].size) <= Capacity

(* Transposing twice, cutting a matrix into its rows and concatenating the *)
(* rows give the tensor back.                                              *)
TensorsKept ==
  \A t \in Tensors : Len(t.data) = NumElements(t.dims) /\ Len(t.dims) = 2 =>
    LET Row(i) == Slice(t, <<<<i - 1, i>>, <<0, t.dims[2]>>>>)
        Rows == FoldLeft(LAMBDA u, i : Concat(u, Row(i), 1), Row(1), [i \in 1 .. t.dims[1] - 1 |-> i + 1])
    IN  /\ Transpose(Transpose(t)) = NewF32(t.dims, t.data)
        /\ Rows = NewF32(t.dims, t.data)
        /\ \A i \in 1 .. t.dims[1], j \in 1 .. t.dims[2] :
             Slice(Transpose(t), <<<<j - 1, j>>, <<i - 1, i>>>>).data
               = Slice(t, <<<<i - 1, i>>, <<j - 1, j>>>>).data

Quantized == {"Q4", "U8", "Q8"}
Near(x, v, d) == LET e == x[1] - v * x[2] IN -d <= e /\ e <= d

(* What a range with zero in it loses by quantising is less than a level;  *)
(* with one level for each value it loses nothing, and without zero in it  *)
(* the ends of such a range are lost.                                      *)
QuantizedBack ==
  /\ \A type \in Quantized, low, high \in QuantRanges :
       LET params == FromRange(type, low, high)
       IN  low <= 0 /\ 0 <= high => \A v \in low .. high :
             Near(Dequantize(params, Quantize(params, v)), v, params.max - params.min)
  /\ \A type \in Quantized, low \in QuantRanges :
       LET high == low + Steps(type)
           params == FromRange(type, low, high)
           Back(v) == Near(Dequantize(params, Quantize(params, v)), v, 0)
       IN  (low <= 0 /\ 0 <= high) <=> \A v \in low .. high : Back(v)

(* Storing the levels as bytes loses none of them; a bit keeps the nearer  *)
(* end of the range; of the float types only zero comes back.              *)
TensorsBack ==
  \A t \in Tensors : t.dtype = "F32" =>
    \A type \in QuantType :
      LET u == QuantizeTensor(t, type)
          back == DequantizeTensor(u).data
      IN  \A i \in DOMAIN AsF32(t) :
            CASE type \in Quantized ->
                   back[i] = Dequantize(u.quant_params, Quantize(u.quant_params, t.data[i]))
              [] type = "B1" -> \A w \in {u.quant_params.min, u.quant_params.max} :
                   LET far == IF w > t.data[i] THEN w - t.data[i] ELSE t.data[i] - w
                   IN  Near(back[i], t.data[i], far)
              [] OTHER -> (back[i] = FloatOf(t.data[i])) <=> t.data[i] = 0

(* A half that is a normal number, zero or an infinity is what its float   *)
(* becomes again, the smallest halves become zero; and a float in the      *)
(* range of the halves loses only the end of its fraction.                 *)
HalvesBack ==
  /\ \A sign \in {0, 1}, exp \in 0 .. 31, frac \in {0, 1, 2, 511, 512, 1023} :
       LET back == F32ToF16(F16ToF32(Float(sign, exp, frac)))
       IN  CASE exp \in 1 .. 30 \/ (exp = 31 /\ frac = 0) -> back = Float(sign, exp, frac)
             [] exp = 31 /\ frac # 0 -> back = Float(0, 31, 0)
             [] OTHER -> back = Float(0, 0, 0)
  /\ \A sign \in {0, 1}, exp \in 113 .. 142, frac \in {0, 1, 2^13 - 1, 2^13, 2^23 - 1} :
       LET back == F16ToF32(F32ToF16(Float(sign, exp, frac)))
       IN  /\ back.sign = sign /\ back.exp = exp
           /\ back.frac <= frac /\ frac < back.frac + 2^13

=============================================================================

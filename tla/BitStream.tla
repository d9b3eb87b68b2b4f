------------------------------- MODULE BitStream -------------------------------
(***************************************************************************)
(* BitStream.h: values written to a string of bits on one machine and read *)
(* from it on another, perhaps of another byte order.  What carries them   *)
(* is made of bytes and may end early.  The header's templates are         *)
(* modelled for a type of two bytes; the functions that store single bits  *)
(* and bytes are in the compiled library.                                  *)
(***************************************************************************)
EXTENDS Integers, Sequences

LOCAL Ext == INSTANCE SequencesExt

CONSTANTS
  Items,       \* what may be written: records of kind, value and the kind's fields
  MaxItems     \* bound: values in a stream

VARIABLES
  bigEndian,   \* of "writer" and "reader", the byte order of the machine
  data,        \* the bits: numberOfBitsUsed is their number
  readOffset,
  written,     \* the items, in the order of the calls
  ends,        \* the numberOfBitsUsed after each of them
  sent,        \* the stream has gone to the reader
  read,        \* the values that have been read
  failed       \* the last read returned false

vars == <<bigEndian, data, readOffset, written, ends, sent, read, failed>>

Bit == {0, 1}
Bytes == 2     \* sizeof(templateType)

TypeOK ==
  /\ bigEndian \in [{"writer", "reader"} -> BOOLEAN]
  /\ data \in Seq(Bit)
  /\ readOffset \in Nat
  /\ written \in Seq(Items)
  /\ ends \in Seq(Nat) /\ read \in Seq(Int)
  /\ sent \in BOOLEAN /\ failed \in BOOLEAN

Init ==
  /\ bigEndian \in [{"writer", "reader"} -> BOOLEAN]
  /\ data = <<>>
  /\ readOffset = 0
  /\ written = <<>> /\ ends = <<>>
  /\ sent = FALSE
  /\ read = <<>>
  /\ failed = FALSE

-------------------------------------------------------------------------------
(* Numbers in memory.                                                      *)

\* The bytes of a number as the machine keeps them.
Memory(n, bytes, who) ==
  [b \in 1 .. bytes |->
     (n \div 256 ^ (IF bigEndian[who] THEN bytes - b ELSE b - 1)) % 256]

Number(memory, who) ==
  LET little == IF bigEndian[who] THEN Ext!Reverse(memory) ELSE memory
      sum[b \in 0 .. Len(little)] ==
        IF b = 0 THEN 0 ELSE sum[b - 1] + little[b] * 256 ^ (b - 1)
  IN sum[Len(little)]

\* Slip: the bytes stay as they are in memory.
AsInMemory(memory, who) == memory

\* DoEndianSwap, ReverseBytes: numbers travel with the high byte first.
NetworkOrder(memory, who) ==
  IF bigEndian[who] THEN memory ELSE Ext!Reverse(memory)

\* A range's and an uint24_t's bytes travel with the low byte first.
LowByteFirst(memory, who) ==
  IF bigEndian[who] THEN Ext!Reverse(memory) ELSE memory

Bool(value) == IF value = 0 THEN 0 ELSE 1

-------------------------------------------------------------------------------
(* The library's part.                                                     *)

\* A byte's last bits, the highest first.
BitsOf(byte, bits) == [i \in 1 .. bits |-> (byte \div 2 ^ (bits - i)) % 2]

ByteOf(bits) ==
  LET sum[i \in 0 .. Len(bits)] == IF i = 0 THEN 0 ELSE 2 * sum[i - 1] + bits[i]
  IN sum[Len(bits)]

\* How many of so many bits the b-th byte holds.
BitsIn(b, bits) ==
  CASE bits >= 8 * b -> 8
    [] bits \in 8 * (b - 1) .. 8 * b - 1 -> bits - 8 * (b - 1)
    [] bits < 8 * (b - 1) -> 0

\* WriteBits, rightAlignedBits: of a byte that is not whole the last bits.
WriteBits(memory, bits) ==
  Ext!FlattenSeq([b \in 1 .. (bits + 7) \div 8 |-> BitsOf(memory[b], BitsIn(b, bits))])

\* A bit; past the end none is looked at (what is read there is dropped).
BitAt(offset) == IF offset < Len(data) THEN data[offset + 1] ELSE 0

\* ReadBits into zeroed memory.
ReadBits(from, bits, bytes) ==
  [b \in 1 .. bytes |->
     ByteOf([i \in 1 .. BitsIn(b, bits) |-> BitAt(from + 8 * (b - 1) + i - 1)])]

\* WriteCompressed of bytes: a null byte at the end takes a bit.
Packed(memory) ==
  <<IF memory[2] = 0 THEN 1 ELSE 0>>
    \o WriteBits(memory, IF memory[2] = 0 THEN 8 ELSE 16)

-------------------------------------------------------------------------------
(* Writing.                                                                *)

\* AlignWriteToByteBoundary, AlignReadToByteBoundary.
ToByteBoundary(offset) == 8 - (((offset + 7) % 8) + 1)

\* BYTES_TO_BITS(sizeof(templateType)) - NumberOfLeadingZeroes(maximum - minimum).
RequiredBits(minimum, maximum) ==
  CHOOSE bits \in 0 .. 8 * Bytes :
    /\ maximum - minimum < 2 ^ bits
    /\ \A fewer \in 0 .. bits - 1 : maximum - minimum >= 2 ^ fewer

Outside(item) == item.value < item.minimum \/ item.value > item.maximum

\* Write of a type of so many bytes.
Whole(value, bytes) ==
  WriteBits(NetworkOrder(Memory(value, bytes, "writer"), "writer"), 8 * bytes)

\* A float between -1 and 1 in units of 1 / scale: clamped, then a number of two
\* bytes.
Clamped(item) ==
  IF item.value < -item.scale THEN -item.scale
  ELSE IF item.value > item.scale THEN item.scale ELSE item.value

Float(item) == ((Clamped(item) + item.scale) * 65535) \div (2 * item.scale)

WriteUInt24(n) ==
  [i \in 1 .. ToByteBoundary(Len(data)) |-> 0] \o
  WriteBits(LowByteFirst(Memory(n, 3, "writer"), "writer"), 24)

WriteDelta(item) ==
  IF item.value = item.lastValue THEN <<0>> ELSE <<1>> \o Whole(item.value, Bytes)

WriteCompressed(n) == Packed(NetworkOrder(Memory(n, Bytes, "writer"), "writer"))

WriteCompressedDelta(item) ==
  IF item.value = item.lastValue THEN <<0>> ELSE <<1>> \o WriteCompressed(item.value)

WriteCasted(n) == Whole(n % 256, 1)

WriteBitsFromIntegerRange(item) ==
  IF item.allowOutsideRange /\ Outside(item)
    THEN <<1>> \o Whole(item.value, Bytes)
    ELSE (IF item.allowOutsideRange THEN <<0>> ELSE <<>>) \o
         WriteBits(LowByteFirst(Memory(item.value - item.minimum, Bytes, "writer"), "writer"),
                   RequiredBits(item.minimum, item.maximum))

\* What a call appends.
Bits(item) ==
  CASE item.kind = "bool" -> <<Bool(item.value)>>
    [] item.kind = "byte" -> Whole(item.value, 1)
    [] item.kind = "word" -> Whole(item.value, Bytes)
    [] item.kind = "uint24_t" -> WriteUInt24(item.value)
    [] item.kind = "delta" -> WriteDelta(item)
    [] item.kind = "compressed" -> WriteCompressed(item.value)
    [] item.kind = "compressed delta" -> WriteCompressedDelta(item)
    [] item.kind = "casted" -> WriteCasted(item.value)
    [] item.kind = "range" -> WriteBitsFromIntegerRange(item)
    [] item.kind = "float" -> Whole(Float(item), 2)

\* Write and its kin, and Serialize and its kin with writeToBitstream.
Write(item) ==
  /\ ~sent
  /\ Len(written) < MaxItems
  /\ data' = data \o Bits(item)
  /\ written' = Append(written, item)
  /\ ends' = Append(ends, Len(data'))
  /\ UNCHANGED <<bigEndian, readOffset, sent, read, failed>>

\* BitStream(data, lengthInBytes, copyData) at the reader, of the first bytes.
Send(bytes) ==
  /\ ~sent
  /\ sent' = TRUE
  /\ data' = SubSeq(data \o [i \in 1 .. ToByteBoundary(Len(data)) |-> 0], 1, 8 * bytes)
  /\ UNCHANGED <<bigEndian, readOffset, written, ends, read, failed>>

-------------------------------------------------------------------------------
(* Reading at an offset: the value, the offset after it, which is past the  *)
(* end of the data when the read fails, and where the reader is then left. *)

Found(to, value, left) == [to |-> to, value |-> value, left |-> left]

\* A flag that has been read stays so though what follows it fails.
PastFlag(offset) == IF offset < Len(data) THEN offset + 1 ELSE offset

ReadBool(offset) == Found(offset + 1, BitAt(offset), offset)

\* Read of a type of so many bytes.
ReadWhole(offset, bytes) ==
  Found(offset + 8 * bytes,
        Number(NetworkOrder(ReadBits(offset, 8 * bytes, bytes), "reader"), "reader"),
        offset)

\* Slip: the boundary only matters to the writer.
StartUnaligned(offset) == offset

Start(offset) == offset + ToByteBoundary(offset)

ReadUInt24(offset) ==
  Found(Start(offset) + 24,
        Number(LowByteFirst(ReadBits(Start(offset), 24, 3), "reader"), "reader"),
        Start(offset))

ReadDelta(offset, lastValue) ==
  IF BitAt(offset) = 1 THEN ReadWhole(offset + 1, Bytes)
  ELSE Found(offset + 1, lastValue, offset)

ReadCompressed(offset) ==
  LET bits == IF BitAt(offset) = 1 THEN 8 ELSE 16
  IN Found(offset + 1 + bits,
           Number(NetworkOrder(ReadBits(offset + 1, bits, Bytes), "reader"), "reader"),
           PastFlag(offset))

ReadCompressedDelta(offset, lastValue) ==
  IF BitAt(offset) = 1 THEN ReadCompressed(offset + 1)
  ELSE Found(offset + 1, lastValue, offset)

ReadBitsFromIntegerRange(offset, item) ==
  LET first == offset + IF item.allowOutsideRange THEN 1 ELSE 0
      bits == RequiredBits(item.minimum, item.maximum)
  IN IF item.allowOutsideRange /\ BitAt(offset) = 1 THEN ReadWhole(first, Bytes)
     ELSE Found(first + bits,
                item.minimum +
                Number(LowByteFirst(ReadBits(first, bits, Bytes), "reader"), "reader"),
                IF item.allowOutsideRange THEN PastFlag(offset) ELSE offset)

\* What a call finds.
ReadAt(offset, item) ==
  CASE item.kind = "bool" -> ReadBool(offset)
    [] item.kind \in {"byte", "casted"} -> ReadWhole(offset, 1)
    [] item.kind \in {"word", "float"} -> ReadWhole(offset, Bytes)
    [] item.kind = "uint24_t" -> ReadUInt24(offset)
    [] item.kind = "delta" -> ReadDelta(offset, item.lastValue)
    [] item.kind = "compressed" -> ReadCompressed(offset)
    [] item.kind = "compressed delta" -> ReadCompressedDelta(offset, item.lastValue)
    [] item.kind = "range" -> ReadBitsFromIntegerRange(offset, item)

\* Read and its kin, and Serialize and its kin without writeToBitstream, called
\* in the order of the writes until one fails.
Read ==
  LET found == ReadAt(readOffset, written[Len(read) + 1]) IN
  /\ sent /\ ~failed
  /\ Len(read) < Len(written)
  /\ IF found.to > Len(data)
       THEN failed' = TRUE /\ readOffset' = found.left /\ UNCHANGED read
       ELSE /\ readOffset' = found.to
            /\ read' = Append(read, found.value)
            /\ UNCHANGED failed
  /\ UNCHANGED <<bigEndian, data, written, ends, sent>>

Next ==
  \/ \E item \in Items : Write(item)
  \/ \E bytes \in 0 .. (Len(data) + 7) \div 8 : Send(bytes)
  \/ Read

Spec == Init /\ [][Next]_vars

-------------------------------------------------------------------------------
(* Properties.                                                             *)

\* Every value comes out as it went in on a machine of any byte order; a cast
\* leaves a byte, and a float comes within one of 65535 steps
\* (BitStream.h:1074-1992).
ReadsBack ==
  \A i \in DOMAIN read :
    LET item == written[i] IN
    CASE item.kind = "casted" -> read[i] = item.value % 256
      [] item.kind = "float" ->
           (Clamped(item) + item.scale) * 65535 - read[i] * 2 * item.scale
             \in 0 .. 2 * item.scale - 1
      [] OTHER -> read[i] = item.value

\* The reader is where the writer has been between two values, and a read fails if
\* and only if its value has not wholly arrived: no flag, range or boundary sets
\* them apart (BitStream.h:1440-1549, 1880-1902).  A read that fails leaves the
\* reader somewhere in its value, which it cannot begin once more.
ReaderKeepsPace ==
  LET before == IF read = <<>> THEN 0 ELSE ends[Len(read)]
  IN
  /\ ~failed => readOffset = before
  /\ failed => readOffset \in before .. ends[Len(read) + 1] - 1
  /\ \A i \in DOMAIN read : ends[i] <= Len(data)
  /\ failed => ends[Len(read) + 1] > Len(data)

\* What is written is read, by a reader that keeps pace: the two above.
StreamCarries == ReadsBack /\ ReaderKeepsPace

===============================================================================

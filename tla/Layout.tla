-------------------------------- MODULE Layout --------------------------------
(***************************************************************************)
(* Where a reader finds the bytes of a container: Layout of                *)
(* crates/oc-format/src/lib.rs, arithmetic on plaintext offsets, chunk     *)
(* numbers and positions in the file.  Numbers keep their width: what the  *)
(* code computes with checked_add and checked_mul is Overflow past MaxU64, *)
(* and a chunk number is a u32.                                            *)
(***************************************************************************)
EXTENDS Integers

CONSTANTS
  MaxU32, MaxU64,
  NONCE_LEN, TAG_LEN,   \* bytes of a frame before and after its ciphertext
  ChunkSizes            \* the sizes check_chunk_size allows

ASSUME LayoutAssumption ==
  /\ MaxU32 \in Nat \ {0} /\ MaxU64 \in Nat /\ MaxU32 <= MaxU64
  /\ NONCE_LEN \in Nat /\ TAG_LEN \in Nat
  /\ ChunkSizes \subseteq 1 .. MaxU32

Overflow == -1     \* FormatError::OffsetOverflow
OutOfRange == -2   \* FormatError::ChunkOutOfRange
Failed(n) == n < 0

checked(n) == IF n \in 0 .. MaxU64 THEN n ELSE Overflow
checked_add(a, b) == IF Failed(a) THEN a ELSE checked(a + b)
LeastOf(a, b) == IF a < b THEN a ELSE b

Layouts ==
  [chunk_size : ChunkSizes, chunk_count : 1 .. MaxU32, total_len : 0 .. MaxU64,
   payload_offset : 0 .. MaxU64]

\* The number of chunks of a file; an empty file has one, of length zero.
required_chunks(total_len, size) ==
  LET full == total_len \div size
      count == IF total_len % size = 0 THEN full ELSE full + 1
      atLeastOne == IF count = 0 THEN 1 ELSE count
  IN  IF atLeastOne > MaxU32 THEN Overflow ELSE atLeastOne

\* Layout::new accepts exactly these.
Consistent(chunk_size, chunk_count, total_len) ==
  /\ chunk_size \in ChunkSizes
  /\ required_chunks(total_len, chunk_size) = chunk_count

layout(chunk_size, chunk_count, total_len, payload_offset) ==
  [chunk_size |-> chunk_size, chunk_count |-> chunk_count, total_len |-> total_len,
   payload_offset |-> payload_offset]

\* The chunk of a plaintext offset.
chunk_of(l, offset) ==
  LET index == offset \div l.chunk_size
  IN  IF index > MaxU32 THEN Overflow ELSE IF index >= l.chunk_count THEN OutOfRange ELSE index

EmptyRead == [first |-> 0, end |-> 0]
Refused == [first |-> Overflow, end |-> Overflow]

\* The chunks first .. end - 1 that cover a read of len bytes at offset.
chunks_for(l, offset, len) ==
  IF len = 0 \/ offset >= l.total_len THEN EmptyRead
  ELSE IF Failed(checked(offset + len)) THEN Refused
  ELSE LET last_byte == LeastOf(offset + len - 1, l.total_len - 1)
           first == chunk_of(l, offset)
           last == chunk_of(l, last_byte)
       IN  IF Failed(first) \/ Failed(last) \/ last + 1 > MaxU32 THEN Refused
           ELSE [first |-> first, end |-> last + 1]

plaintext_len_of(l, index) ==
  IF index >= l.chunk_count THEN OutOfRange
  ELSE IF Failed(checked(index * l.chunk_size)) THEN Overflow
  ELSE LET rest == l.total_len - index * l.chunk_size
       IN  LeastOf(IF rest < 0 THEN 0 ELSE rest, l.chunk_size)

\* The bytes of a frame in the file, start included and end not: every frame
\* before the last is full, so its offset is a product.
ciphertext_span(l, index) ==
  LET len == plaintext_len_of(l, index)
      framed_full == checked(l.chunk_size + NONCE_LEN + TAG_LEN)
      before == IF Failed(framed_full) THEN Overflow ELSE checked(index * framed_full)
      start == IF Failed(before) THEN Overflow ELSE checked_add(before, l.payload_offset)
      end == checked_add(checked_add(checked_add(start, NONCE_LEN), len), TAG_LEN)
  IN  IF Failed(len) THEN [start |-> len, end |-> len]
      ELSE IF Failed(start) \/ Failed(end) THEN [start |-> Overflow, end |-> Overflow]
      ELSE [start |-> start, end |-> end]

===============================================================================

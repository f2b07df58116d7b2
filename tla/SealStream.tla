------------------------------ MODULE SealStream ------------------------------
(***************************************************************************)
(* seal_chunks of crates/oc-crypto/src/stream.rs: a document is read from  *)
(* a host's source, which may give any part of what is asked, cut into     *)
(* chunks, sealed and handed to a host's sink; and what a reader finds in  *)
(* the result through Layout.                                              *)
(*                                                                         *)
(* A byte of the document is its offset.  A frame is its bytes: those of   *)
(* the nonce and of the tag carry the number of their chunk, those of the  *)
(* ciphertext the byte they encrypt.  The tree is the sequence of its      *)
(* leaves.  Source and sink may fail at every call.                        *)
(***************************************************************************)
EXTENDS Layout, Sequences

CONSTANTS
  FileLens,       \* lengths of documents
  AskedSizes,     \* chunk sizes seal_chunks is called with, legal or not
  PayloadOffset   \* where the host's sink writes the first byte

ASSUME StreamAssumption ==
  /\ FileLens \subseteq Nat
  /\ AskedSizes \subseteq 0 .. MaxU32
  /\ PayloadOffset \in 0 .. MaxU64
  /\ MaxU32 + NONCE_LEN + TAG_LEN <= MaxU64   \* a frame's length is a u64

VARIABLES
  len,          \* the length of the document
  chunk_size,
  pos,          \* bytes the source has given
  plaintext,    \* the buffer: what fill has put there for the next chunk
  ended,        \* the source has returned zero
  out,          \* the bytes the sink has taken
  leaves,
  total_len,
  index,
  status        \* "running", "sealed", or the error returned

vars == <<len, chunk_size, pos, plaintext, ended, out, leaves, total_len, index, status>>

-------------------------------------------------------------------------------
(* Frames. *)

NonceOf(i) == [k \in 1 .. NONCE_LEN |-> <<"nonce", i>>]
TagOf(i) == [k \in 1 .. TAG_LEN |-> <<"tag", i>>]
Encrypted(bytes) == [k \in DOMAIN bytes |-> <<"ct", bytes[k]>>]

\* What seal_chunk_hedged leaves in framed.
Framed(i, bytes) == Encrypted(bytes) \o TagOf(i)
Frame(i, bytes) == NonceOf(i) \o Framed(i, bytes)
Leaf(i, bytes) == [index |-> i, bytes |-> bytes]

Bytes(from, n) == [k \in 1 .. n |-> from + k - 1]

Init ==
  /\ len \in FileLens
  /\ chunk_size \in AskedSizes
  /\ pos = 0 /\ plaintext = <<>> /\ ended = FALSE
  /\ out = <<>> /\ leaves = <<>> /\ total_len = 0 /\ index = 0
  \* Zero capacity would skip the source and seal any file as an empty one.
  /\ status = IF chunk_size = 0 THEN "BadLength" ELSE "running"

-------------------------------------------------------------------------------
(* fill: one action per call of the source. *)

capacity == chunk_size

\* fill asks the source again.
Filling == status = "running" /\ ~ended /\ Len(plaintext) < capacity

\* The source gives n bytes, at most the room there is.
SourceGives(n) ==
  /\ Filling
  /\ n <= capacity - Len(plaintext) /\ n <= len - pos
  /\ plaintext' = plaintext \o Bytes(pos, n)
  /\ pos' = pos + n
  /\ UNCHANGED <<len, chunk_size, ended, out, leaves, total_len, index, status>>

\* Faulty: a read of zero bytes is asked again.
SourceEndsIgnored ==
  /\ Filling
  /\ pos = len
  /\ UNCHANGED vars

SourceEnds ==
  /\ Filling
  /\ pos = len
  /\ ended' = TRUE
  /\ UNCHANGED <<len, chunk_size, pos, plaintext, out, leaves, total_len, index, status>>

\* The source says it wrote more than it was given room for: declare_len refuses.
SourceOverstates ==
  /\ Filling
  /\ status' = "BadLength"
  /\ UNCHANGED <<len, chunk_size, pos, plaintext, ended, out, leaves, total_len, index>>

SourceFails ==
  /\ Filling
  /\ status' = "Host"
  /\ UNCHANGED <<len, chunk_size, pos, plaintext, ended, out, leaves, total_len, index>>

-------------------------------------------------------------------------------
(* The loop of seal_chunks, once fill has returned. *)

\* Faulty: a read that is shorter than the buffer ends fill.
FilledByOneRead == status = "running" /\ (ended \/ plaintext # <<>>)

Filled == status = "running" /\ (ended \/ Len(plaintext) = capacity)

\* The document ended with the chunk before: an empty chunk is for an empty document.
NothingLeft == plaintext = <<>> /\ index > 0

Finish ==
  /\ Filled /\ NothingLeft
  /\ status' = "sealed"
  /\ UNCHANGED <<len, chunk_size, pos, plaintext, ended, out, leaves, total_len, index>>

\* What the counters and the length of the chunk make of the loop.
AfterChunk ==
  IF total_len + Len(plaintext) > MaxU64 \/ index + 1 > MaxU32 THEN "TooLarge"
  ELSE IF Len(plaintext) < capacity THEN "sealed"
  ELSE "running"

\* The chunk is sealed, the sink takes nonce and frame, leaf and counters follow.
SealChunk ==
  /\ Filled /\ ~NothingLeft
  /\ out' = out \o Frame(index, plaintext)
  /\ leaves' = Append(leaves, Leaf(index, plaintext))
  /\ status' = AfterChunk
  /\ total_len' = IF total_len + Len(plaintext) > MaxU64 THEN total_len ELSE total_len + Len(plaintext)
  /\ index' = IF AfterChunk = "TooLarge" THEN index ELSE index + 1
  /\ plaintext' = <<>>   \* as_capacity_mut wipes before the next fill
  /\ UNCHANGED <<len, chunk_size, pos, ended>>

\* The sink fails at the nonce, or at the frame with the nonce taken.
SinkFails ==
  /\ Filled /\ ~NothingLeft
  /\ out' \in {out, out \o NonceOf(index)}
  /\ status' = "Host"
  /\ UNCHANGED <<len, chunk_size, pos, plaintext, ended, leaves, total_len, index>>

Work == (\E n \in 1 .. len : SourceGives(n)) \/ SourceEnds \/ Finish \/ SealChunk
Failure == SourceOverstates \/ SourceFails \/ SinkFails

Next == Work \/ Failure

\* seal_chunks runs on while source and sink return; they need not fail.
Spec == Init /\ [][Next]_vars /\ WF_vars(Work)

-------------------------------------------------------------------------------
(* Properties. *)

\* The chunk a document of this length has at i, however it is read.
ChunkAt(i) ==
  Bytes(i * chunk_size, LeastOf(chunk_size, len - i * chunk_size))

\* fill: short reads of the source never move a boundary.  While sealing goes
\* on, and after it failed, what was sealed is the beginning of the one way to
\* cut the document; a success has lost nothing of it, and says how long it is.
BoundariesFixed ==
  /\ \A i \in 1 .. Len(leaves) : leaves[i] = Leaf(i - 1, ChunkAt(i - 1))
  /\ status = "sealed" =>
       /\ total_len = len
       /\ \A b \in 0 .. len - 1 : \E i \in 1 .. Len(leaves) : \E k \in DOMAIN leaves[i].bytes :
            leaves[i].bytes[k] = b

View == layout(chunk_size, index, total_len, PayloadOffset)

\* The frame each chunk number leads to is that of the chunk, and the frames
\* are all there is.
FramesWhereTheyWereWritten ==
  /\ \A i \in 0 .. index - 1 :
       LET span == ciphertext_span(View, i)
       IN  SubSeq(out, span.start - PayloadOffset + 1, span.end - PayloadOffset)
             = Frame(i, leaves[i + 1].bytes)
  /\ ciphertext_span(View, index - 1).end - PayloadOffset = Len(out)

\* What sealing returns is what a reader accepts (Layout::new), and writer and
\* reader agree on the frames though neither calls the other; a file that ends
\* past the last u64 is refused, never read at a wrapped offset.
ReaderFindsEveryFrame ==
  status = "sealed" /\ chunk_size \in ChunkSizes =>
    /\ Consistent(chunk_size, index, total_len)
    /\ IF PayloadOffset + Len(out) <= MaxU64 THEN FramesWhereTheyWereWritten
       ELSE Failed(ciphertext_span(View, index - 1).end)

\* A read of any range, past the end included, opens exactly the chunks that
\* hold a byte of it, whenever its end can be written as a u64.
ReadsOpenWhatTheyNeed ==
  status = "sealed" /\ chunk_size \in ChunkSizes =>
    \A offset \in 0 .. MaxU64 : \A n \in 0 .. MaxU64 - offset :
      LET range == chunks_for(View, offset, n)
      IN  {i \in 0 .. index - 1 : range.first <= i /\ i < range.end}
            = {i \in 0 .. index - 1 : \E k \in DOMAIN leaves[i + 1].bytes :
                 offset <= leaves[i + 1].bytes[k] /\ leaves[i + 1].bytes[k] < offset + n}

\* Writer and reader together: the cut is fixed, every frame is found, and a
\* read of a range opens what it needs.
SealedForTheReader == BoundariesFixed /\ ReaderFindsEveryFrame /\ ReadsOpenWhatTheyNeed

\* Sealing ends: a source that keeps giving bytes runs out of them.
Returns == <>(status # "running")

===============================================================================

------------------------------ MODULE EditWriter ------------------------------
(***************************************************************************)
(* The edit writer (prepare and finish of crates/oc-engine/src/edit.rs)    *)
(* and what a reader makes of what it writes.  A new revision is made of   *)
(* pieces: frames copied from the old file and newly sealed text.          *)
(*                                                                         *)
(* A frame is the chunk number it was sealed for (its AAD) and its text;   *)
(* the length of the text is that of the ciphertext.  A leaf binds a frame *)
(* to the position it stands at, and the root is the sequence of leaves.   *)
(* Signatures and the certificate are in Editions.                         *)
(***************************************************************************)
EXTENDS Layout, Sequences

CONSTANTS
  Byte,        \* values of a byte of text
  MaxPieces    \* bound: pieces of a revision

ASSUME WriterAssumption == MaxPieces \in Nat

leaf_of(index, frame) == [index |-> index, frame |-> frame]

VARIABLES
  file_chunk_size,   \* chunk_size of the header
  file,        \* the file: its frames and its description (history: its text as
               \* meant, the frames that were never moved, the revisions made)
  step,        \* "idle" or "writing"
  count,       \* pieces of the plan
  payload,     \* frames of the new revision so far
  new_leaves,  \* leaves of prepare
  new_len,     \* total_len of prepare
  meant,       \* history: the text of the revision, as the caller means it
  kept,        \* history: the pieces that are new or were never moved
  refused      \* the error of the last call, or "none"

plan == <<count, payload, new_leaves, new_len, meant, kept>>
writer_vars == <<file_chunk_size, file, step, plan, refused>>

desc(tree, length, chunks, counter) ==
  [tree_root |-> tree, total_len |-> length, chunk_count |-> chunks, version_counter |-> counter]

\* A file as packed: one frame, of a text that fits a chunk.
WriterInit ==
  /\ file_chunk_size \in ChunkSizes
  /\ \E n \in 0 .. file_chunk_size : \E text \in [1 .. n -> Byte] :
       LET frame == [sealed_for |-> 0, text |-> text]
       IN  file = [frames |-> <<frame>>, meant |-> text, kept |-> {1}, made |-> 0,
                   desc |-> desc(<<leaf_of(0, frame)>>, n, 1, 0)]
  /\ step = "idle" /\ count = 0 /\ payload = <<>> /\ new_leaves = <<>> /\ new_len = 0
  /\ meant = <<>> /\ kept = {} /\ refused = "none"

-------------------------------------------------------------------------------
(* The writer. *)

Idle == step = "idle"
Position == Len(payload)

\* The local variables of a call are gone when it returns.
Return(result) ==
  /\ step' = "idle" /\ refused' = result
  /\ count' = 0 /\ payload' = <<>> /\ new_leaves' = <<>> /\ new_len' = 0
  /\ meant' = <<>> /\ kept' = {}
  /\ UNCHANGED file_chunk_size

\* A failed call leaves the file as it was.
Abandon(error) == Return(error) /\ UNCHANGED file

Begin(n) ==
  /\ Idle
  /\ IF n = 0 THEN Abandon("BadLayout")
     ELSE /\ step' = "writing" /\ count' = n /\ refused' = "none"
          /\ UNCHANGED <<file_chunk_size, file, payload, new_leaves, new_len, meant, kept>>

\* Faulty: only the length of the last piece is bounded.
FitsLastOnly(len) == Position + 1 = count => len <= file_chunk_size

\* Every piece but the last is a full chunk, and none is longer.
Fits(len) == (Position + 1 = count \/ len = file_chunk_size) /\ len <= file_chunk_size

\* Frame and leaf of one piece, and the checks on its index and its length.
Put(frame, inPlace) ==
  /\ step = "writing" /\ Position < count
  /\ IF Position > MaxU32 THEN Abandon("OffsetOverflow")
     ELSE IF ~Fits(Len(frame.text)) THEN Abandon("BadLayout")
     ELSE IF new_len + Len(frame.text) > MaxU64 THEN Abandon("OffsetOverflow")
     ELSE /\ payload' = Append(payload, frame)
          /\ new_leaves' = Append(new_leaves, leaf_of(Position, frame))
          /\ new_len' = new_len + Len(frame.text)
          /\ meant' = meant \o frame.text
          /\ kept' = kept \cup (IF inPlace THEN {Position + 1} ELSE {})
          /\ UNCHANGED <<file_chunk_size, file, step, count, refused>>

\* Piece::Keep: the frame at index i of the old file; the caller's part is
\* to pass the one with the index of the piece.
Keep(i) ==
  /\ i \in 1 .. Len(file.frames)
  /\ Put(file.frames[i], i = Position + 1 /\ i \in file.kept)

\* Piece::Keep of bytes too short for nonce and tag.
KeepStub ==
  /\ step = "writing" /\ Position < count
  /\ Abandon(IF Position > MaxU32 THEN "OffsetOverflow" ELSE "BadFrame")

\* Piece::Seal.
Seal(text) ==
  Put([sealed_for |-> Position, text |-> text], TRUE)

\* check_against_chunk_size.
DescriptionFits == Consistent(file_chunk_size, count, new_len)

next_counter(base) == checked(base + 1)

\* The end of prepare, and finish: the new revision replaces the file.
Complete ==
  /\ step = "writing" /\ Position = count
  /\ LET counter == next_counter(file.desc.version_counter)
     IN  IF Failed(counter) THEN Abandon("CounterExhausted")
         ELSE IF count > MaxU32 THEN Abandon("OffsetOverflow")
         ELSE IF ~DescriptionFits THEN Abandon("ChunkCountMismatch")
         ELSE /\ file' = [frames |-> payload, meant |-> meant, kept |-> kept,
                          made |-> file.made + 1,
                          desc |-> desc(new_leaves, new_len, count, counter)]
              /\ Return("none")

WriterNext ==
  \/ \E n \in 0 .. MaxPieces : Begin(n)
  \/ \E i \in 1 .. MaxPieces : Keep(i)
  \/ KeepStub
  \/ \E n \in 0 .. 1 + MaxU32 : \E text \in [1 .. n -> Byte] : Seal(text)
  \/ Complete

WriterSpec == WriterInit /\ [][WriterNext]_writer_vars

-------------------------------------------------------------------------------
(* The reader: description, frames against the root, then each chunk. *)

RevisionView == layout(file_chunk_size, file.desc.chunk_count, file.desc.total_len, 0)

\* The frames the layout cuts the payload into are the ones written.
CutsAsWritten ==
  /\ Consistent(file_chunk_size, file.desc.chunk_count, file.desc.total_len)
  /\ Len(file.frames) = file.desc.chunk_count
  /\ \A i \in 1 .. Len(file.frames) : plaintext_len_of(RevisionView, i - 1) = Len(file.frames[i].text)

\* leaf_of of every frame where it stands.
Recomputed == [i \in DOMAIN file.frames |-> leaf_of(i - 1, file.frames[i])]

\* open_chunk: a frame opens at the index it was sealed for.
open_chunk(i) == file.frames[i].sealed_for = i - 1

-------------------------------------------------------------------------------
(* Properties. *)

\* Whatever pieces prepare was given, a file it lets out is cut by the reader
\* where the writer put the frames, and hashes to the root it describes.
RevisionIsReadable == CutsAsWritten /\ Recomputed = file.desc.tree_root

\* Every byte of a revision, looked up by its offset, lies in a chunk that
\* opens, unless the caller moved that chunk's frame, and is the byte meant.
BytesAsMeant ==
  \A b \in 0 .. file.desc.total_len - 1 :
    LET i == chunk_of(RevisionView, b) + 1
    IN  i \in file.kept =>
          open_chunk(i) /\ file.frames[i].text[(b % file_chunk_size) + 1] = file.meant[b + 1]

\* The counter says how many revisions were made since the file was packed: it
\* never stands still nor comes round again, and a failed call counts nothing.
CountsRevisions == file.desc.version_counter = file.made

\* Whatever pieces prepare was given and however many revisions went before, a
\* revision that is let out is read as it was meant, and is newer than they.
RevisionAsMeant == RevisionIsReadable /\ BytesAsMeant /\ CountsRevisions

===============================================================================

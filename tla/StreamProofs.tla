----------------------------- MODULE StreamProofs -----------------------------
(***************************************************************************)
(* Writers and readers agree on where the chunks of a document are.        *)
(***************************************************************************)
EXTENDS SealStream, EditWriter, SequenceTheorems, TLAPS

-------------------------------------------------------------------------------
(* Arithmetic of chunks. *)

\* Chunks before chunk j leave room for chunk i.
LEMMA ChunksAscend ==
  ASSUME NEW c \in Nat, NEW i \in Nat, NEW j \in Nat, i < j
  PROVE  /\ i * c \in Nat /\ j * c \in Nat
         /\ i * c + c <= j * c
<1>1. PICK d \in Nat : j = i + 1 + d
  <2>1. j - i - 1 \in Nat /\ j = i + 1 + (j - i - 1)
    OBVIOUS
  <2> QED BY <2>1
<1>2. d * c \in Nat
  OBVIOUS
<1>3. j * c = i * c + c + d * c
  BY <1>1
<1> QED BY <1>2, <1>3

LEMMA ChunksStart ==
  ASSUME NEW c \in Nat, NEW i \in Nat
  PROVE  i * c \in Nat /\ (i + 1) * c = i * c + c
OBVIOUS

\* An offset is the start of its chunk and the place in it.
LEMMA OffsetInChunk ==
  ASSUME NEW c \in Nat \ {0}, NEW b \in Nat
  PROVE  /\ b \div c \in Nat /\ b % c \in 0 .. c - 1
         /\ b = ((b \div c) * c) + (b % c)
OBVIOUS

\* The chunk of an offset is the one whose span has it.
LEMMA ChunkOfSpan ==
  ASSUME NEW c \in Nat \ {0}, NEW b \in Nat, NEW i \in Nat, i * c <= b, b < i * c + c
  PROVE  b \div c = i
<1> DEFINE q == b \div c
<1>1. q \in Nat /\ q * c <= b /\ b < q * c + c
  BY OffsetInChunk
<1>2. ~(q < i)
  BY <1>1, ChunksAscend
<1>3. ~(i < q)
  BY <1>1, ChunksAscend
<1> QED BY <1>1, <1>2, <1>3

\* Sequences as functions.
LEMMA FunctionIsSeq ==
  ASSUME NEW S, NEW n \in Nat, NEW f \in [1 .. n -> S]
  PROVE  f \in Seq(S) /\ Len(f) = n
OBVIOUS

LEMMA AppendIsFunction ==
  ASSUME NEW S, NEW s \in Seq(S), NEW e \in S
  PROVE  Append(s, e) = [i \in 1 .. Len(s) + 1 |-> IF i = Len(s) + 1 THEN e ELSE s[i]]
<1>1. Append(s, e) \in [1 .. Len(s) + 1 -> S]
  BY AppendProperties, LenProperties
<1>2. \A i \in 1 .. Len(s) + 1 : Append(s, e)[i] = IF i = Len(s) + 1 THEN e ELSE s[i]
  BY AppendProperties, LenProperties
<1> QED BY <1>1, <1>2

-------------------------------------------------------------------------------
(* The edit writer. *)

AFrame == [sealed_for : Nat, text : Seq(Byte)]

\* Frames that stand for the chunks of a text, n of them when it is complete:
\* all but the n-th are full, and each holds its part of the text.
FullButLast(c, frames, n) ==
  \A i \in 1 .. Len(frames) :
    /\ Len(frames[i].text) <= c
    /\ i < n => Len(frames[i].text) = c

AsLongAs(c, frames, n, text) ==
  /\ Len(frames) < n => Len(text) = Len(frames) * c
  /\ Len(frames) = n /\ 0 < n => Len(text) = (n - 1) * c + Len(frames[n].text)

Holding(c, frames, text) ==
  \A i \in 1 .. Len(frames) : \A k \in 1 .. Len(frames[i].text) :
    frames[i].text[k] = text[(i - 1) * c + k]

SealedInPlace(frames, unmoved) ==
  /\ unmoved \subseteq 1 .. Len(frames)
  /\ \A i \in unmoved : frames[i].sealed_for = i - 1

Chunked(c, frames, n, text, unmoved) ==
  /\ frames \in Seq(AFrame) /\ n \in Nat /\ Len(frames) <= n /\ text \in Seq(Byte)
  /\ FullButLast(c, frames, n) /\ AsLongAs(c, frames, n, text)
  /\ Holding(c, frames, text) /\ SealedInPlace(frames, unmoved)

TreeOf(frames) == [i \in 1 .. Len(frames) |-> [index |-> i - 1, frame |-> frames[i]]]

\* The file is a text cut into chunks and described as such.
FileOK ==
  /\ file.frames # <<>>
  /\ Chunked(file_chunk_size, file.frames, Len(file.frames), file.meant, file.kept)
  /\ file.desc.total_len = Len(file.meant) /\ file.desc.total_len <= MaxU64
  /\ file.desc.chunk_count = Len(file.frames)
  /\ Consistent(file_chunk_size, file.desc.chunk_count, file.desc.total_len)
  /\ file.desc.tree_root = TreeOf(file.frames)
  /\ file.made \in Nat /\ file.desc.version_counter = file.made

\* What is written so far is the beginning of such a file.
PlanOK ==
  step = "writing" =>
    /\ 0 < count
    /\ Chunked(file_chunk_size, payload, count, meant, kept)
    /\ new_leaves = TreeOf(payload)
    /\ new_len = Len(meant) /\ new_len <= MaxU64

\* Between two calls nothing is left of the first.
Rested ==
  step # "writing" => payload = <<>> /\ new_leaves = <<>> /\ new_len = 0 /\ meant = <<>> /\ kept = {}

WriterInv ==
  /\ file_chunk_size \in ChunkSizes
  /\ FileOK /\ PlanOK /\ Rested

LEMMA FileMeansWhatItSays ==
  ASSUME file_chunk_size \in ChunkSizes, FileOK
  PROVE  RevisionAsMeant
<1> DEFINE c == file_chunk_size
           n == Len(file.frames)
           total == file.desc.total_len
           before == (n - 1) * c
           last == Len(file.frames[n].text)
<1>c. c \in Nat \ {0}
  BY LayoutAssumption
<1>n. n \in Nat \ {0} /\ file.desc.chunk_count = n /\ file.frames \in Seq(AFrame)
  BY EmptySeq DEF FileOK, Chunked, FullButLast, AsLongAs, Holding, SealedInPlace
<1>f. \A i \in 1 .. n : /\ Len(file.frames[i].text) \in Nat /\ Len(file.frames[i].text) <= c
                        /\ i < n => Len(file.frames[i].text) = c
  <2> TAKE i \in 1 .. n
  <2>1. file.frames[i] \in AFrame
    BY <1>n, ElementOfSeq
  <2>2. file.frames[i].text \in Seq(Byte)
    BY <2>1 DEF AFrame
  <2> QED BY <2>2, LenProperties DEF FileOK, Chunked, FullButLast, AsLongAs, Holding, SealedInPlace
<1>t. total \in Nat /\ total = before + last /\ total <= MaxU64
  BY <1>n DEF FileOK, Chunked, FullButLast, AsLongAs, Holding, SealedInPlace
<1>b. before \in Nat /\ last \in Nat /\ last <= c
  BY <1>c, <1>n, <1>f, ChunksStart
<1>1. RevisionView = layout(c, n, total, 0)
  BY <1>n DEF RevisionView
<1>2. \A i \in 1 .. n : plaintext_len_of(RevisionView, i - 1) = Len(file.frames[i].text)
  <2> TAKE i \in 1 .. n
  <2> DEFINE l == Len(file.frames[i].text)
             from == (i - 1) * c
             rest == total - from
  <2>1. from \in Nat /\ l \in Nat /\ l <= c
    BY <1>c, <1>n, <1>f, ChunksStart
  <2>2. rest \in Nat /\ (i = n => rest = l) /\ (i < n => rest >= c /\ l = c)
    <3>1. CASE i = n
      BY <3>1, <1>t, <2>1, SMTT(30)
    <3>2. CASE i < n
      <4>1. from + c <= before
        BY <3>2, <1>c, <1>n, ChunksAscend, i - 1 \in Nat, n - 1 \in Nat, i - 1 < n - 1
      <4>2. l = c
        BY <3>2, <1>f
      <4>3. rest = total - from
        OBVIOUS
      <4> HIDE DEF from, l, rest, before, last, total, c
      <4> QED BY <3>2, <4>1, <4>2, <4>3, <1>t, <1>b, <2>1, <1>c
    <3> QED BY <3>1, <3>2, <1>n
  <2>3. LeastOf(rest, c) = l
    BY <2>1, <2>2, <1>c, <1>n DEF LeastOf
  <2>4. from \in 0 .. MaxU64
    <3>1. rest = total - from
      OBVIOUS
    <3>2. rest \in Nat /\ from \in Nat /\ total \in Nat /\ total <= MaxU64
      BY <2>1, <2>2, <1>t
    <3> HIDE DEF rest, from, total
    <3> QED BY <3>1, <3>2, LayoutAssumption
  <2> HIDE DEF l, from, rest
  <2>5. plaintext_len_of(layout(c, n, total, 0), i - 1)
          = IF i - 1 >= n THEN OutOfRange
            ELSE IF Failed(checked(from)) THEN Overflow
            ELSE LeastOf(IF rest < 0 THEN 0 ELSE rest, c)
    BY DEF plaintext_len_of, layout, from, rest
  <2>6. ~Failed(checked(from)) /\ ~(rest < 0) /\ ~(i - 1 >= n)
    BY <2>2, <2>4, <1>n DEF Failed, checked
  <2> QED BY <2>3, <2>5, <2>6, <1>1 DEF l
<1>3. RevisionIsReadable
  <2>1. CutsAsWritten
    BY <1>2, <1>n DEF CutsAsWritten, FileOK
  <2>2. Recomputed = file.desc.tree_root
    BY <1>n DEF Recomputed, leaf_of, FileOK, TreeOf
  <2> QED BY <2>1, <2>2 DEF RevisionIsReadable
<1>4. BytesAsMeant
  <2> SUFFICES ASSUME NEW b \in 0 .. total - 1, NEW i, i = chunk_of(RevisionView, b) + 1, i \in file.kept
               PROVE  open_chunk(i) /\ file.frames[i].text[(b % c) + 1] = file.meant[b + 1]
    BY DEF BytesAsMeant
  <2> DEFINE q == b \div c
             r == b % c
  <2>1. b \in Nat /\ b < total
    BY <1>t
  <2>2. q \in Nat /\ r \in 0 .. c - 1 /\ b = q * c + r /\ q * c \in Nat
    BY <2>1, <1>c, OffsetInChunk
  <2>3. q < n
    <3>1. SUFFICES ASSUME n <= q PROVE FALSE
      BY <2>2, <1>n
    <3>2. before + c <= q * c
      BY <3>1, <2>2, <1>n, <1>c, ChunksAscend, n - 1 \in Nat, n - 1 < q
    <3> DEFINE start == q * c
    <3> HIDE DEF q, r, c, total, before, last, start
    <3> QED BY <3>2, <2>1, <2>2, <1>t, <1>b, <1>c DEF start
  <2>4. i = q + 1
    <3>1. n <= MaxU32
      <4>1. required_chunks(total, c) = n
        BY <1>n DEF FileOK, Consistent
      <4>2. required_chunks(total, c) = Overflow
              \/ ~(required_chunks(total, c) > MaxU32)
        BY DEF required_chunks
      <4> HIDE DEF n
      <4> QED BY <4>1, <4>2, <1>n, LayoutAssumption DEF Overflow
    <3>2. chunk_of(layout(c, n, total, 0), b)
            = IF q > MaxU32 THEN Overflow ELSE IF q >= n THEN OutOfRange ELSE q
      BY DEF chunk_of, layout
    <3> HIDE DEF q
    <3> QED BY <3>1, <3>2, <2>2, <2>3, <1>1, <1>n, LayoutAssumption
  <2>5. r + 1 \in 1 .. Len(file.frames[i].text)
    <3>1. i \in 1 .. n /\ Len(file.frames[i].text) \in Nat
      BY <2>2, <2>3, <2>4, <1>n, <1>f
    <3>2. CASE i < n
      BY <3>1, <3>2, <1>f, <2>2, <1>c
    <3>3. CASE i = n
      <4>1. before = q * c
        BY <3>3, <2>4, <2>2, <1>n
      <4>2. b = before + r /\ b < before + last /\ r \in Nat
        <5>1. b = q * c + r /\ r \in Nat
          BY <2>2, <1>c
        <5> HIDE DEF q, r, before, last, total, c
        <5> QED BY <5>1, <4>1, <2>1, <1>t
      <4>3. r < last
        <5> HIDE DEF r, before, last
        <5> QED BY <4>2, <2>1, <1>b
      <4> QED BY <4>2, <4>3, <3>1, <3>3
    <3> QED BY <3>1, <3>2, <3>3, <1>n
  <2>6. file.frames[i].text[r + 1] = file.meant[(i - 1) * c + (r + 1)]
    BY <2>2, <2>3, <2>4, <2>5, <1>n DEF FileOK, Chunked, FullButLast, AsLongAs, Holding, SealedInPlace
  <2>7. (i - 1) * c + (r + 1) = b + 1
    <3>1. i - 1 = q
      BY <2>4, <2>2
    <3> HIDE DEF q, r
    <3> QED BY <3>1, <2>2, <1>c
  <2>8. file.frames[i].sealed_for = i - 1
    BY DEF FileOK, Chunked, FullButLast, AsLongAs, Holding, SealedInPlace
  <2> QED BY <2>6, <2>7, <2>8 DEF open_chunk
<1>5. CountsRevisions
  BY DEF FileOK, CountsRevisions
<1> QED BY <1>3, <1>4, <1>5 DEF RevisionAsMeant


LEMMA NothingChunked ==
  ASSUME NEW c \in Nat \ {0}, NEW n \in Nat \ {0}
  PROVE  Chunked(c, <<>>, n, <<>>, {}) /\ TreeOf(<<>>) = <<>>
<1>1. <<>> \in Seq(AFrame) /\ <<>> \in Seq(Byte) /\ Len(<<>>) = 0
  BY EmptySeq
<1>2. 0 * c = 0
  OBVIOUS
<1>3. TreeOf(<<>>) = <<>>
  BY DEF TreeOf
<1>4. FullButLast(c, <<>>, n) /\ Holding(c, <<>>, <<>>) /\ SealedInPlace(<<>>, {})
  BY <1>1 DEF FullButLast, Holding, SealedInPlace
<1>5. AsLongAs(c, <<>>, n, <<>>)
  BY <1>1, <1>2 DEF AsLongAs
<1>6. <<>> \in Seq(AFrame) /\ n \in Nat /\ Len(<<>>) <= n /\ <<>> \in Seq(Byte)
  BY <1>1
<1> QED BY <1>3, <1>4, <1>5, <1>6 DEF Chunked

\* A frame of the length Fits asks for is the next chunk.
LEMMA NextFrame ==
  ASSUME NEW c \in Nat \ {0}, NEW frames, NEW n, NEW text, NEW unmoved,
         Chunked(c, frames, n, text, unmoved), Len(frames) < n,
         NEW frame \in AFrame, Len(frame.text) <= c,
         Len(frames) + 1 = n \/ Len(frame.text) = c,
         NEW more \in SUBSET {Len(frames) + 1},
         more # {} => frame.sealed_for = Len(frames)
  PROVE  /\ Chunked(c, Append(frames, frame), n, text \o frame.text, unmoved \cup more)
         /\ Len(text \o frame.text) = Len(text) + Len(frame.text)
         /\ TreeOf(Append(frames, frame))
              = Append(TreeOf(frames), [index |-> Len(frames), frame |-> frame])
<1> DEFINE m == Len(frames)
           grown == Append(frames, frame)
           longer == text \o frame.text
<1>1. frames \in Seq(AFrame) /\ m \in Nat /\ n \in Nat /\ m < n /\ text \in Seq(Byte)
      /\ Len(text) \in Nat /\ frame.text \in Seq(Byte) /\ Len(frame.text) \in Nat
  BY LenProperties DEF Chunked, AFrame
<1>2. /\ grown \in Seq(AFrame) /\ Len(grown) = m + 1 /\ grown[m + 1] = frame
      /\ \A i \in 1 .. m : grown[i] = frames[i]
  BY <1>1, AppendProperties
<1>3. /\ longer \in Seq(Byte) /\ Len(longer) = Len(text) + Len(frame.text)
      /\ \A k \in 1 .. Len(text) : longer[k] = text[k]
      /\ \A k \in 1 .. Len(frame.text) : longer[Len(text) + k] = frame.text[k]
  <2>1. longer \in Seq(Byte)
    BY <1>1, ConcatProperties
  <2>2. Len(longer) = Len(text) + Len(frame.text)
    BY <1>1, ConcatProperties
  <2>3. \A k \in 1 .. Len(text) + Len(frame.text) :
          longer[k] = IF k <= Len(text) THEN text[k] ELSE frame.text[k - Len(text)]
    BY <1>1, ConcatProperties
  <2>4. ASSUME NEW k \in 1 .. Len(text) PROVE longer[k] = text[k]
    BY <2>3, <1>1
  <2>5. ASSUME NEW k \in 1 .. Len(frame.text) PROVE longer[Len(text) + k] = frame.text[k]
    <3>1. Len(text) + k \in 1 .. Len(text) + Len(frame.text) /\ ~(Len(text) + k <= Len(text))
          /\ Len(text) + k - Len(text) = k
      BY <1>1
    <3> QED BY <3>1, <2>3
  <2> QED BY <2>1, <2>2, <2>4, <2>5
<1>4. Len(text) = m * c
  BY <1>1 DEF Chunked, AsLongAs
<1>c. m * c \in Nat /\ (m + 1) * c = m * c + c
  BY <1>1, ChunksStart
<1> HIDE DEF m, grown, longer
<1>5. \A i \in 1 .. m + 1 : /\ Len(grown[i].text) <= c
                            /\ i < n => Len(grown[i].text) = c
  <2> TAKE i \in 1 .. m + 1
  <2>1. CASE i = m + 1
    BY <2>1, <1>1, <1>2 DEF m
  <2>2. CASE i \in 1 .. m
    BY <2>2, <1>2 DEF Chunked, m, FullButLast, AsLongAs, Holding, SealedInPlace
  <2> QED BY <2>1, <2>2, <1>1
<1>6. AsLongAs(c, grown, n, longer)
  <2> DEFINE end == m * c
             l == Len(frame.text)
  <2>1. Len(longer) = end + l /\ end \in Nat /\ l \in Nat /\ (m + 1) * c = end + c
    BY <1>1, <1>3, <1>4, <1>c
  <2>2. ASSUME m + 1 < n PROVE Len(longer) = (m + 1) * c
    <3>1. l = c
      BY <2>2, <1>1 DEF m
    <3> QED BY <3>1, <2>1
  <2>3. ASSUME m + 1 = n PROVE Len(longer) = (n - 1) * c + Len(grown[n].text)
    <3>1. n - 1 = m /\ grown[n] = frame
      BY <2>3, <1>1, <1>2
    <3> QED BY <3>1, <2>1
  <2> QED BY <2>2, <2>3, <1>2 DEF AsLongAs
<1>8. \A i \in 1 .. m + 1 : \A k \in 1 .. Len(grown[i].text) :
        grown[i].text[k] = longer[(i - 1) * c + k]
  <2> TAKE i \in 1 .. m + 1
  <2> TAKE k \in 1 .. Len(grown[i].text)
  <2>1. CASE i = m + 1
    <3>1. (i - 1) * c + k = Len(text) + k
      BY <2>1, <1>4, <1>1
    <3> QED BY <3>1, <2>1, <1>2, <1>3
  <2>2. CASE i \in 1 .. m
    <3>1. grown[i] = frames[i]
      BY <2>2, <1>2
    <3>2. frames[i].text[k] = text[(i - 1) * c + k]
      BY <2>2, <3>1 DEF Chunked, m, FullButLast, AsLongAs, Holding, SealedInPlace
    <3>3. Len(frames[i].text) \in Nat /\ Len(frames[i].text) <= c
      <4>1. frames[i] \in AFrame
        BY <2>2, <1>1, ElementOfSeq DEF m
      <4> QED BY <4>1, <2>2, LenProperties DEF AFrame, Chunked, FullButLast, m
    <3>4. (i - 1) * c \in Nat /\ (i - 1) * c + c <= m * c
      BY <2>2, <1>1, ChunksAscend, i - 1 \in Nat, i - 1 < m
    <3> DEFINE from == (i - 1) * c
               end == m * c
    <3>5. from + k \in 1 .. end
      <4>1. k \in Nat /\ 0 < k /\ k <= c
        BY <3>1, <3>3
      <4>2. end \in Nat /\ from \in Nat /\ from + c <= end
        BY <3>4, <1>c
      <4> HIDE DEF from, end
      <4> QED BY <4>1, <4>2
    <3> QED BY <3>1, <3>2, <3>5, <1>3, <1>4
  <2> QED BY <2>1, <2>2, <1>1
<1>9. /\ unmoved \cup more \subseteq 1 .. m + 1
      /\ \A i \in unmoved \cup more : grown[i].sealed_for = i - 1
  <2>1. unmoved \subseteq 1 .. m /\ \A i \in unmoved : frames[i].sealed_for = i - 1
    BY DEF Chunked, m, FullButLast, AsLongAs, Holding, SealedInPlace
  <2>2. more \subseteq {m + 1} /\ (more # {} => frame.sealed_for = m)
    BY DEF m
  <2>3. ASSUME NEW i \in unmoved PROVE i \in 1 .. m + 1 /\ grown[i].sealed_for = i - 1
    BY <2>1, <1>1, <1>2
  <2>4. ASSUME NEW i \in more PROVE i \in 1 .. m + 1 /\ grown[i].sealed_for = i - 1
    BY <2>2, <1>1, <1>2
  <2> QED BY <2>3, <2>4
<1>10. Chunked(c, grown, n, longer, unmoved \cup more)
  <2>1. FullButLast(c, grown, n) /\ Holding(c, grown, longer) /\ SealedInPlace(grown, unmoved \cup more)
    BY <1>2, <1>5, <1>8, <1>9 DEF FullButLast, Holding, SealedInPlace
  <2>2. grown \in Seq(AFrame) /\ n \in Nat /\ Len(grown) <= n /\ longer \in Seq(Byte)
    BY <1>1, <1>2, <1>3
  <2> QED BY <2>1, <2>2, <1>6 DEF Chunked
<1>11. TreeOf(grown) = Append(TreeOf(frames), [index |-> m, frame |-> frame])
  <2> DEFINE leaf == [index |-> m, frame |-> frame]
             old == TreeOf(frames)
             new == TreeOf(grown)
             Leaves == [index : Int, frame : AFrame]
  <2>1. old = [i \in 1 .. m |-> [index |-> i - 1, frame |-> frames[i]]]
    BY DEF TreeOf, m
  <2>2. new = [i \in 1 .. m + 1 |-> [index |-> i - 1, frame |-> grown[i]]]
    BY <1>2 DEF TreeOf
  <2>3. old \in Seq(Leaves) /\ Len(old) = m
    <3>1. \A i \in 1 .. m : [index |-> i - 1, frame |-> frames[i]] \in Leaves
      BY <1>1, ElementOfSeq DEF m
    <3>2. old \in [1 .. m -> Leaves]
      BY <2>1, <3>1
    <3> HIDE DEF Leaves, old
    <3> QED BY <3>2, <1>1, FunctionIsSeq
  <2>4. Append(old, leaf) = [i \in 1 .. m + 1 |-> IF i = m + 1 THEN leaf ELSE old[i]]
    <3>1. leaf \in Leaves
      BY <1>1
    <3> HIDE DEF Leaves, old, leaf
    <3> QED BY <3>1, <2>3, AppendIsFunction
  <2>5. ASSUME NEW i \in 1 .. m + 1
        PROVE  new[i] = IF i = m + 1 THEN leaf ELSE old[i]
    <3>1. CASE i = m + 1
      <4>1. i - 1 = m /\ grown[i] = frame
        BY <3>1, <1>1, <1>2
      <4> QED BY <3>1, <4>1, <2>2
    <3>2. CASE i \in 1 .. m
      <4>1. i # m + 1 /\ grown[i] = frames[i]
        BY <3>2, <1>1, <1>2
      <4> QED BY <3>2, <4>1, <2>1, <2>2
    <3> QED BY <3>1, <3>2, <1>1
  <2> HIDE DEF old, leaf
  <2> QED BY <2>2, <2>4, <2>5 DEF old, leaf
<1> QED BY <1>3, <1>10, <1>11 DEF m, grown, longer


LEMMA WriterBegins == WriterInit => WriterInv
<1> SUFFICES ASSUME WriterInit PROVE WriterInv
  OBVIOUS
<1>c. file_chunk_size \in ChunkSizes /\ file_chunk_size \in Nat \ {0} /\ file_chunk_size <= MaxU64 /\ file_chunk_size <= MaxU32
  BY LayoutAssumption DEF WriterInit
<1>1. PICK n \in 0 .. file_chunk_size : \E text \in [1 .. n -> Byte] :
        file = [frames |-> <<[sealed_for |-> 0, text |-> text]>>, meant |-> text, kept |-> {1}, made |-> 0,
                desc |-> desc(<<leaf_of(0, [sealed_for |-> 0, text |-> text])>>, n, 1, 0)]
  BY DEF WriterInit
<1>2. PICK text \in [1 .. n -> Byte] :
        file = [frames |-> <<[sealed_for |-> 0, text |-> text]>>, meant |-> text, kept |-> {1}, made |-> 0,
                desc |-> desc(<<leaf_of(0, [sealed_for |-> 0, text |-> text])>>, n, 1, 0)]
  BY <1>1
<1>3. text \in Seq(Byte) /\ Len(text) = n /\ n \in Nat /\ n <= file_chunk_size
  BY <1>c, FunctionIsSeq
<1>4. PICK frame : frame = [sealed_for |-> 0, text |-> text]
  OBVIOUS
<1>5. frame \in AFrame /\ frame.text = text /\ frame.sealed_for = 0
  BY <1>3, <1>4 DEF AFrame
<1>6. /\ file.frames = <<frame>> /\ file.meant = text /\ file.kept = {1} /\ file.made = 0
      /\ file.desc.tree_root = <<[index |-> 0, frame |-> frame]>> /\ file.desc.total_len = n
      /\ file.desc.chunk_count = 1 /\ file.desc.version_counter = 0
  BY <1>2, <1>4 DEF desc, leaf_of
<1>7. /\ Chunked(file_chunk_size, Append(<<>>, frame), 1, <<>> \o text, {} \cup {1})
      /\ TreeOf(Append(<<>>, frame)) = Append(TreeOf(<<>>), [index |-> 0, frame |-> frame])
      /\ TreeOf(<<>>) = <<>>
  <2>1. Chunked(file_chunk_size, <<>>, 1, <<>>, {}) /\ TreeOf(<<>>) = <<>> /\ Len(<<>>) = 0
    BY <1>c, NothingChunked
  <2>2. PICK none : none = <<>>
    OBVIOUS
  <2>3. /\ Chunked(file_chunk_size, none, 1, none, {}) /\ Len(none) < 1
        /\ frame \in AFrame /\ Len(frame.text) <= file_chunk_size
        /\ Len(none) + 1 = 1 \/ Len(frame.text) = file_chunk_size
        /\ {1} \in SUBSET {Len(none) + 1}
        /\ {1} # {} => frame.sealed_for = Len(none)
    BY <2>1, <2>2, <1>3, <1>5
  <2>4. /\ Chunked(file_chunk_size, Append(none, frame), 1, none \o frame.text, {} \cup {1})
        /\ TreeOf(Append(none, frame)) = Append(TreeOf(none), [index |-> Len(none), frame |-> frame])
    BY <2>3, <1>c, NextFrame, Zenon
  <2> QED BY <2>1, <2>2, <2>4, <1>5
<1>8. Append(<<>>, frame) = <<frame>> /\ <<>> \o text = text /\ {} \cup {1} = {1} /\ Len(<<frame>>) = 1
      /\ Append(<<>>, [index |-> 0, frame |-> frame]) = <<[index |-> 0, frame |-> frame]>>
      /\ <<frame>> # <<>>
  BY <1>3
<1>9. required_chunks(n, file_chunk_size) = 1
  <2>1. n \div file_chunk_size = IF n = file_chunk_size THEN 1 ELSE 0
    <3>1. CASE n = file_chunk_size
      BY <3>1, <1>c, ChunkOfSpan, 1 * file_chunk_size = file_chunk_size
    <3>2. CASE n < file_chunk_size
      BY <3>2, <1>c, <1>3, ChunkOfSpan, 0 * file_chunk_size = 0
    <3> QED BY <3>1, <3>2, <1>c, <1>3
  <2>2. n % file_chunk_size = IF n = file_chunk_size THEN 0 ELSE n
    <3>1. n = ((n \div file_chunk_size) * file_chunk_size) + (n % file_chunk_size) /\ n % file_chunk_size \in 0 .. file_chunk_size - 1
      BY <1>3, <1>c, OffsetInChunk
    <3>2. 1 * file_chunk_size = file_chunk_size /\ 0 * file_chunk_size = 0
      BY <1>c
    <3>3. CASE n = file_chunk_size
      BY <3>1, <3>2, <3>3, <2>1, <1>c
    <3>4. CASE n < file_chunk_size
      BY <3>1, <3>2, <3>4, <2>1, <1>c, <1>3
    <3> QED BY <3>3, <3>4, <1>c, <1>3
  <2>3. 1 <= MaxU32
    BY LayoutAssumption
  <2> QED BY <2>1, <2>2, <2>3, <1>3, <1>c, LayoutAssumption DEF required_chunks
<1>10. FileOK
  <2>1. Consistent(file_chunk_size, file.desc.chunk_count, file.desc.total_len)
    BY <1>6, <1>9, <1>c DEF Consistent
  <2>2. n <= MaxU64
    BY <1>3, <1>c, LayoutAssumption
  <2> QED BY <1>3, <1>6, <1>7, <1>8, <2>1, <2>2 DEF FileOK
<1> QED BY <1>10, <1>c DEF WriterInv, WriterInit, PlanOK, Rested

LEMMA WriterReturns ==
  ASSUME NEW result, Return(result), file_chunk_size \in ChunkSizes, FileOK'
  PROVE  WriterInv'
BY DEF Return, WriterInv, PlanOK, Rested

LEMMA WriterAbandons ==
  ASSUME NEW error, Abandon(error), WriterInv
  PROVE  WriterInv'
<1>1. Return(error) /\ file' = file /\ file_chunk_size' = file_chunk_size
  BY DEF Abandon, Return
<1>2. FileOK'
  BY <1>1 DEF FileOK, WriterInv
<1> QED BY <1>1, <1>2, WriterReturns DEF WriterInv

LEMMA WriterPuts ==
  ASSUME NEW frame \in AFrame, NEW inPlace \in BOOLEAN,
         inPlace => frame.sealed_for = Len(payload),
         Put(frame, inPlace), WriterInv
  PROVE  WriterInv'
<1>c. file_chunk_size \in Nat \ {0}
  BY LayoutAssumption DEF WriterInv
<1>1. CASE Position > MaxU32 \/ ~Fits(Len(frame.text))
  BY <1>1, WriterAbandons DEF Put
<1>2. CASE Fits(Len(frame.text)) /\ new_len + Len(frame.text) > MaxU64
  BY <1>2, WriterAbandons DEF Put
<1>3. CASE ~(Position > MaxU32) /\ Fits(Len(frame.text)) /\ ~(new_len + Len(frame.text) > MaxU64)
  <2> DEFINE more == IF inPlace THEN {Len(payload) + 1} ELSE {}
  <2>1. /\ step = "writing" /\ Len(payload) < count
        /\ payload' = Append(payload, frame)
        /\ new_leaves' = Append(new_leaves, [index |-> Len(payload), frame |-> frame])
        /\ new_len' = new_len + Len(frame.text) /\ meant' = meant \o frame.text
        /\ kept' = kept \cup more
        /\ file_chunk_size' = file_chunk_size /\ file' = file /\ step' = step /\ count' = count
    BY <1>3 DEF Put, Position, leaf_of
  <2>2. /\ Len(payload) + 1 = count \/ Len(frame.text) = file_chunk_size
        /\ Len(frame.text) <= file_chunk_size
    BY <1>3 DEF Fits, Position
  <2>3. /\ 0 < count /\ Chunked(file_chunk_size, payload, count, meant, kept)
        /\ new_leaves = TreeOf(payload) /\ new_len = Len(meant)
    BY <2>1 DEF WriterInv, PlanOK
  <2>4. more \in SUBSET {Len(payload) + 1} /\ (more # {} => frame.sealed_for = Len(payload))
    OBVIOUS
  <2> HIDE DEF more
  <2>5. /\ Chunked(file_chunk_size, payload', count, meant', kept')
        /\ Len(meant') = Len(meant) + Len(frame.text)
        /\ new_leaves' = TreeOf(payload')
    <3>1. /\ Chunked(file_chunk_size, Append(payload, frame), count, meant \o frame.text, kept \cup more)
          /\ Len(meant \o frame.text) = Len(meant) + Len(frame.text)
          /\ TreeOf(Append(payload, frame))
               = Append(TreeOf(payload), [index |-> Len(payload), frame |-> frame])
      BY <2>1, <2>2, <2>3, <2>4, <1>c, NextFrame, ZenonT(60)
    <3> QED BY <3>1, <2>1, <2>3
  <2>6. new_len' = Len(meant') /\ new_len' <= MaxU64
    <3>1. Len(meant) \in Nat /\ Len(frame.text) \in Nat
      BY <2>3, LenProperties DEF Chunked, AFrame
    <3> QED BY <3>1, <2>1, <2>3, <2>5, <1>3, LayoutAssumption
  <2>7. FileOK'
    BY <2>1 DEF FileOK, WriterInv
  <2>8. PlanOK'
    BY <2>1, <2>3, <2>5, <2>6 DEF PlanOK
  <2> QED BY <2>1, <2>7, <2>8 DEF WriterInv, Rested
<1> QED BY <1>1, <1>2, <1>3

LEMMA WriterStep ==
  ASSUME WriterInv, [WriterNext]_writer_vars
  PROVE  WriterInv'
<1>c. file_chunk_size \in ChunkSizes /\ file_chunk_size \in Nat \ {0}
  BY LayoutAssumption DEF WriterInv
<1>1. ASSUME NEW n \in 0 .. MaxPieces, Begin(n) PROVE WriterInv'
  <2>1. CASE n = 0
    BY <1>1, <2>1, WriterAbandons DEF Begin
  <2>2. CASE n # 0
    <3>1. /\ step # "writing" /\ step' = "writing" /\ count' = n
          /\ UNCHANGED <<file_chunk_size, file, payload, new_leaves, new_len, meant, kept>>
      BY <1>1, <2>2 DEF Begin, Idle
    <3>2. payload' = <<>> /\ new_leaves' = <<>> /\ new_len' = 0 /\ meant' = <<>> /\ kept' = {}
      BY <3>1 DEF WriterInv, Rested
    <3>3. n \in Nat \ {0}
      BY <2>2
    <3>4. Chunked(file_chunk_size, <<>>, n, <<>>, {}) /\ TreeOf(<<>>) = <<>>
      BY <3>3, <1>c, NothingChunked
    <3>5. PlanOK'
      BY <3>1, <3>2, <3>3, <3>4, LayoutAssumption DEF PlanOK
    <3>6. FileOK'
      BY <3>1 DEF FileOK, WriterInv
    <3> QED BY <3>1, <3>5, <3>6, <1>c DEF WriterInv, Rested
  <2> QED BY <2>1, <2>2
<1>2. ASSUME NEW i \in 1 .. MaxPieces, Keep(i) PROVE WriterInv'
  <2> DEFINE inPlace == i = Len(payload) + 1 /\ i \in file.kept
  <2>1. /\ i \in 1 .. Len(file.frames) /\ Put(file.frames[i], inPlace)
        /\ Len(payload) \in Nat
    <3>1. payload \in Seq(AFrame)
      BY <1>2 DEF Keep, Put, WriterInv, PlanOK, Chunked
    <3> QED BY <1>2, <3>1, LenProperties DEF Keep, Position
  <2>2. file.frames[i] \in AFrame
    BY <2>1, ElementOfSeq DEF WriterInv, FileOK, Chunked
  <2>3. inPlace => file.frames[i].sealed_for = Len(payload)
    BY <2>1 DEF WriterInv, FileOK, Chunked, SealedInPlace
  <2>4. inPlace \in BOOLEAN
    OBVIOUS
  <2> HIDE DEF inPlace
  <2> QED BY <2>1, <2>2, <2>3, <2>4, WriterPuts
<1>3. ASSUME KeepStub PROVE WriterInv'
  BY <1>3, WriterAbandons DEF KeepStub
<1>4. ASSUME NEW n \in 0 .. 1 + MaxU32, NEW text \in [1 .. n -> Byte], Seal(text) PROVE WriterInv'
  <2> DEFINE frame == [sealed_for |-> Len(payload), text |-> text]
  <2>1. Put(frame, TRUE) /\ Len(payload) \in Nat
    <3>1. payload \in Seq(AFrame)
      BY <1>4 DEF Seal, Put, WriterInv, PlanOK, Chunked
    <3> QED BY <1>4, <3>1, LenProperties DEF Seal, Position
  <2>2. text \in Seq(Byte)
    BY FunctionIsSeq, n \in Nat, LayoutAssumption
  <2>3. frame \in AFrame /\ frame.sealed_for = Len(payload)
    BY <2>1, <2>2 DEF AFrame
  <2> HIDE DEF frame
  <2> QED BY <2>1, <2>3, WriterPuts
<1>5. ASSUME Complete PROVE WriterInv'
  <2> DEFINE vc == file.desc.version_counter
  <2>1. step = "writing" /\ Len(payload) = count
    BY <1>5 DEF Complete, Position
  <2>2. CASE Failed(next_counter(vc)) \/ count > MaxU32 \/ ~DescriptionFits
    BY <1>5, <2>2, WriterAbandons DEF Complete
  <2>3. CASE ~Failed(next_counter(vc)) /\ ~(count > MaxU32) /\ DescriptionFits
    <3>1. /\ file' = [frames |-> payload, meant |-> meant, kept |-> kept, made |-> file.made + 1,
                      desc |-> desc(new_leaves, new_len, count, next_counter(vc))]
          /\ Return("none") /\ file_chunk_size' = file_chunk_size
      BY <1>5, <2>3 DEF Complete, Return
    <3>2. /\ file'.frames = payload /\ file'.meant = meant /\ file'.kept = kept
          /\ file'.made = file.made + 1
          /\ file'.desc.tree_root = new_leaves /\ file'.desc.total_len = new_len
          /\ file'.desc.chunk_count = count /\ file'.desc.version_counter = next_counter(vc)
      BY <3>1 DEF desc
    <3>3. vc \in Nat /\ vc = file.made
      BY DEF WriterInv, FileOK
    <3>4. next_counter(vc) = file.made + 1 /\ file.made + 1 \in Nat
      <4> HIDE DEF vc
      <4> QED BY <2>3, <3>3 DEF next_counter, checked, Failed, Overflow
    <3>5. /\ 0 < count /\ Chunked(file_chunk_size, payload, count, meant, kept)
          /\ new_leaves = TreeOf(payload) /\ new_len = Len(meant) /\ new_len <= MaxU64
      BY <2>1 DEF WriterInv, PlanOK
    <3>6. payload # <<>>
      BY <2>1, <3>5, EmptySeq
    <3>7. Consistent(file_chunk_size, count, new_len)
      BY <2>3 DEF DescriptionFits
    <3>8. FileOK'
      BY <2>1, <3>1, <3>2, <3>4, <3>5, <3>6, <3>7 DEF FileOK
    <3> QED BY <3>1, <3>8, <1>c, WriterReturns
  <2> QED BY <2>2, <2>3
<1>6. ASSUME UNCHANGED writer_vars PROVE WriterInv'
  BY <1>6 DEF writer_vars, plan, WriterInv, FileOK, PlanOK, Rested
<1> QED BY <1>1, <1>2, <1>3, <1>4, <1>5, <1>6 DEF WriterNext

\* A revision let out by prepare and finish is read as it was meant and is
\* newer than those before it, for every chunk size, text and choice of pieces.
THEOREM RevisionsReadAsMeant == WriterSpec => []RevisionAsMeant
<1>1. WriterInv => RevisionAsMeant
  BY FileMeansWhatItSays DEF WriterInv
<1>2. WriterInv /\ [WriterNext]_writer_vars => WriterInv'
  BY WriterStep
<1> QED BY <1>1, <1>2, WriterBegins, PTL DEF WriterSpec


-------------------------------------------------------------------------------
(* Streaming: bytes and frames. *)

FrameBytes == {"nonce", "ct", "tag"} \X Nat
Overhead == NONCE_LEN + TAG_LEN
LeafSet == [index : Nat, bytes : Seq(Nat)]

\* The i-th piece of a document of l bytes cut into chunks of c bytes.
LengthAt(c, l, i) == LeastOf(c, l - i * c)
PieceAt(c, l, i) == Bytes(i * c, LengthAt(c, l, i))

\* The first n frames of a document, one after the other.
Frames(c, l, bytes, n) ==
  /\ bytes \in Seq(FrameBytes)
  /\ Len(bytes) = LeastOf(n * c, l) + n * Overhead
  /\ \A i \in 0 .. n - 1 : \A k \in 1 .. LengthAt(c, l, i) + Overhead :
       bytes[i * (c + Overhead) + k] = Frame(i, PieceAt(c, l, i))[k]

LEMMA BytesAre ==
  ASSUME NEW from \in Nat, NEW n \in Nat
  PROVE  /\ Bytes(from, n) \in Seq(Nat) /\ Len(Bytes(from, n)) = n
         /\ DOMAIN Bytes(from, n) = 1 .. n
         /\ \A k \in 1 .. n : Bytes(from, n)[k] = from + k - 1
<1>1. Bytes(from, n) \in [1 .. n -> Nat]
  BY DEF Bytes
<1>2. Bytes(from, n) \in Seq(Nat) /\ Len(Bytes(from, n)) = n
  BY <1>1, FunctionIsSeq
<1> QED BY <1>1, <1>2 DEF Bytes

LEMMA BytesJoin ==
  ASSUME NEW from \in Nat, NEW m \in Nat, NEW n \in Nat
  PROVE  Bytes(from, m) \o Bytes(from + m, n) = Bytes(from, m + n)
<1> DEFINE a == Bytes(from, m)
           b == Bytes(from + m, n)
           both == a \o b
           all == Bytes(from, m + n)
<1>1. /\ a \in Seq(Nat) /\ Len(a) = m /\ b \in Seq(Nat) /\ Len(b) = n
      /\ all \in Seq(Nat) /\ Len(all) = m + n
      /\ \A k \in 1 .. m : a[k] = from + k - 1
      /\ \A k \in 1 .. n : b[k] = from + m + k - 1
      /\ \A k \in 1 .. m + n : all[k] = from + k - 1
  BY BytesAre, from + m \in Nat, m + n \in Nat
<1> HIDE DEF a, b, all
<1>2. /\ both \in Seq(Nat) /\ Len(both) = m + n
      /\ \A k \in 1 .. m + n : both[k] = IF k <= m THEN a[k] ELSE b[k - m]
  BY <1>1, ConcatProperties, ZenonT(60)
<1>3. ASSUME NEW k \in 1 .. m + n PROVE both[k] = all[k]
  <2>1. CASE k <= m
    BY <2>1, <1>1, <1>2
  <2>2. CASE ~(k <= m)
    <3>1. k - m \in 1 .. n /\ from + m + (k - m) - 1 = from + k - 1
      BY <2>2
    <3> HIDE DEF both
    <3> QED BY <2>2, <3>1, <1>1, <1>2
  <2> QED BY <2>1, <2>2
<1> HIDE DEF both
<1>4. both = all
  BY <1>1, <1>2, <1>3, SeqEqual
<1> QED BY <1>4 DEF both, a, b, all

LEMMA FrameIs ==
  ASSUME NEW i \in Nat, NEW bytes \in Seq(Nat)
  PROVE  /\ Frame(i, bytes) \in Seq(FrameBytes)
         /\ Len(Frame(i, bytes)) = Len(bytes) + Overhead
<1>1. NonceOf(i) \in Seq(FrameBytes) /\ Len(NonceOf(i)) = NONCE_LEN
  <2>1. NonceOf(i) \in [1 .. NONCE_LEN -> FrameBytes]
    BY DEF NonceOf, FrameBytes
  <2> QED BY <2>1, FunctionIsSeq, LayoutAssumption
<1>2. TagOf(i) \in Seq(FrameBytes) /\ Len(TagOf(i)) = TAG_LEN
  <2>1. TagOf(i) \in [1 .. TAG_LEN -> FrameBytes]
    BY DEF TagOf, FrameBytes
  <2> QED BY <2>1, FunctionIsSeq, LayoutAssumption
<1>3. Encrypted(bytes) \in Seq(FrameBytes) /\ Len(Encrypted(bytes)) = Len(bytes)
  <2>1. DOMAIN bytes = 1 .. Len(bytes) /\ Len(bytes) \in Nat /\ \A k \in 1 .. Len(bytes) : bytes[k] \in Nat
    BY LenProperties, ElementOfSeq
  <2>2. Encrypted(bytes) \in [1 .. Len(bytes) -> FrameBytes]
    BY <2>1 DEF Encrypted, FrameBytes
  <2> QED BY <2>1, <2>2, FunctionIsSeq
<1>4. Framed(i, bytes) \in Seq(FrameBytes) /\ Len(Framed(i, bytes)) = Len(bytes) + TAG_LEN
  <2> DEFINE e == Encrypted(bytes)
             t == TagOf(i)
  <2>1. e \in Seq(FrameBytes) /\ t \in Seq(FrameBytes)
    BY <1>2, <1>3
  <2> HIDE DEF e, t
  <2>2. e \o t \in Seq(FrameBytes) /\ Len(e \o t) = Len(e) + Len(t)
    BY <2>1, ConcatProperties
  <2> QED BY <2>2, <1>2, <1>3 DEF Framed, e, t
<1>5. Frame(i, bytes) \in Seq(FrameBytes) /\ Len(Frame(i, bytes)) = NONCE_LEN + Len(Framed(i, bytes))
  BY <1>1, <1>4, ConcatProperties DEF Frame
<1>6. Len(bytes) \in Nat
  BY LenProperties
<1> QED BY <1>4, <1>5, <1>6, LayoutAssumption DEF Overhead

\* The piece at i begins where i full ones end, if the document is that long.
LEMMA PieceIs ==
  ASSUME NEW c \in Nat \ {0}, NEW l \in Nat, NEW i \in Nat, i * c <= l
  PROVE  /\ i * c \in Nat /\ LengthAt(c, l, i) \in Nat /\ LengthAt(c, l, i) <= c
         /\ LengthAt(c, l, i) = LeastOf(c, l - i * c)
         /\ i * c + LengthAt(c, l, i) <= l
         /\ i * c + c <= l => LengthAt(c, l, i) = c
         /\ l <= i * c + c => i * c + LengthAt(c, l, i) = l
         /\ PieceAt(c, l, i) \in Seq(Nat) /\ Len(PieceAt(c, l, i)) = LengthAt(c, l, i)
         /\ DOMAIN PieceAt(c, l, i) = 1 .. LengthAt(c, l, i)
         /\ \A k \in 1 .. LengthAt(c, l, i) : PieceAt(c, l, i)[k] = i * c + k - 1
<1> DEFINE from == i * c
           n == LengthAt(c, l, i)
<1>1. from \in Nat /\ from <= l
  BY ChunksStart
<1>2. n = LeastOf(c, l - from)
  BY DEF LengthAt
<1>3. PieceAt(c, l, i) = Bytes(from, n)
  BY DEF PieceAt
<1> HIDE DEF from, n
<1>4. n \in Nat /\ n <= c /\ from + n <= l /\ (from + c <= l => n = c) /\ (l <= from + c => from + n = l)
  BY <1>1, <1>2 DEF LeastOf
<1>5. /\ Bytes(from, n) \in Seq(Nat) /\ Len(Bytes(from, n)) = n /\ DOMAIN Bytes(from, n) = 1 .. n
      /\ \A k \in 1 .. n : Bytes(from, n)[k] = from + k - 1
  BY <1>1, <1>4, BytesAre
<1> QED BY <1>1, <1>2, <1>3, <1>4, <1>5 DEF from, n

LEMMA PieceByte ==
  ASSUME NEW c \in Nat \ {0}, NEW l \in Nat, NEW i \in Nat, i * c <= l,
         NEW k \in 1 .. LengthAt(c, l, i)
  PROVE  PieceAt(c, l, i)[k] = i * c + k - 1
<1>1. \A j \in 1 .. LengthAt(c, l, i) : PieceAt(c, l, i)[j] = i * c + j - 1
  BY PieceIs
<1> QED BY <1>1

LEMMA PieceSeq ==
  ASSUME NEW c \in Nat \ {0}, NEW l \in Nat, NEW i \in Nat, i * c <= l
  PROVE  PieceAt(c, l, i) \in Seq(Nat) /\ Len(PieceAt(c, l, i)) = LengthAt(c, l, i)
BY PieceIs

LEMMA NoFrames ==
  ASSUME NEW c \in Nat \ {0}, NEW l \in Nat
  PROVE  Frames(c, l, <<>>, 0)
<1>1. <<>> \in Seq(FrameBytes) /\ Len(<<>>) = 0 /\ 0 * c = 0 /\ 0 * Overhead = 0
  BY EmptySeq, LayoutAssumption DEF Overhead
<1> QED BY <1>1 DEF Frames, LeastOf

\* After n full frames the next one stands where the layout looks for it.
LEMMA FramesGrow ==
  ASSUME NEW c \in Nat \ {0}, NEW l \in Nat, NEW n \in Nat, NEW bytes,
         n * c <= l, Frames(c, l, bytes, n)
  PROVE  Frames(c, l, bytes \o Frame(n, PieceAt(c, l, n)), n + 1)
<1> DEFINE next == Frame(n, PieceAt(c, l, n))
           longer == bytes \o next
           full == n * c
           extra == n * Overhead
           m == LengthAt(c, l, n)
           start == n * (c + Overhead)
<1>o. Overhead \in Nat
  BY LayoutAssumption DEF Overhead
<1>1. full \in Nat /\ extra \in Nat /\ start = full + extra /\ full <= l
      /\ (n + 1) * c = full + c /\ (n + 1) * Overhead = extra + Overhead
  BY <1>o, ChunksStart
<1>2. m \in Nat /\ PieceAt(c, l, n) \in Seq(Nat) /\ Len(PieceAt(c, l, n)) = m /\ m = LeastOf(c, l - full)
  BY PieceIs
<1>3. next \in Seq(FrameBytes) /\ Len(next) = m + Overhead
  BY <1>2, FrameIs
<1>4. bytes \in Seq(FrameBytes) /\ Len(bytes) = LeastOf(full, l) + extra
  BY DEF Frames
<1>5. \A i \in 0 .. n - 1 : \A k \in 1 .. LengthAt(c, l, i) + Overhead :
       bytes[i * (c + Overhead) + k] = Frame(i, PieceAt(c, l, i))[k]
  BY DEF Frames
<1> HIDE DEF next, full, extra, m, start
<1>6. Len(bytes) = start /\ start \in Nat
  BY <1>1, <1>4 DEF LeastOf
<1>7. /\ longer \in Seq(FrameBytes) /\ Len(longer) = start + (m + Overhead)
      /\ \A k \in 1 .. start + (m + Overhead) :
           longer[k] = IF k <= start THEN bytes[k] ELSE next[k - start]
  BY <1>3, <1>4, <1>6, ConcatProperties, ZenonT(60)
<1> HIDE DEF longer
<1>8. Len(longer) = LeastOf((n + 1) * c, l) + (n + 1) * Overhead
  BY <1>1, <1>2, <1>6, <1>7, <1>o DEF LeastOf
<1>9. ASSUME NEW i \in 0 .. n, NEW k \in 1 .. LengthAt(c, l, i) + Overhead
      PROVE  longer[i * (c + Overhead) + k] = Frame(i, PieceAt(c, l, i))[k]
  <2>1. CASE i = n
    <3>1. k \in 1 .. m + Overhead
      BY <2>1 DEF m
    <3>2. longer[start + k] = next[k]
      <4>1. PICK j : j = start + k
        OBVIOUS
      <4>2. j \in 1 .. start + (m + Overhead) /\ ~(j <= start) /\ j - start = k
        BY <4>1, <3>1, <1>2, <1>6, <1>o
      <4>3. longer[j] = next[j - start]
        BY <4>2, <1>7
      <4> QED BY <4>1, <4>2, <4>3
    <3> QED BY <2>1, <3>2 DEF start, next
  <2>2. CASE i \in 0 .. n - 1
    <3> DEFINE at == i * (c + Overhead)
    <3>1. bytes[at + k] = Frame(i, PieceAt(c, l, i))[k]
      BY <2>2, <1>5
    <3>2. at \in Nat /\ at + (c + Overhead) <= start
      BY <2>2, <1>o, ChunksAscend DEF start
    <3>3. k \in 1 .. c + Overhead
      <4>1. i \in Nat /\ i < n
        BY <2>2
      <4>2. i * c <= l
        <5>1. i * c \in Nat /\ i * c + c <= full
          BY <4>1, ChunksAscend DEF full
        <5> QED BY <5>1, <1>1
      <4>3. LengthAt(c, l, i) \in Nat /\ LengthAt(c, l, i) <= c
        BY <4>1, <4>2, PieceIs
      <4> QED BY <4>3, <1>o
    <3> HIDE DEF at
    <3>4. at + k \in 1 .. start + (m + Overhead) /\ at + k <= start
      BY <3>2, <3>3, <1>2, <1>6, <1>o
    <3> QED BY <3>1, <3>4, <1>7 DEF at
  <2> QED BY <2>1, <2>2
<1>10. \A i \in 0 .. (n + 1) - 1 : \A k \in 1 .. LengthAt(c, l, i) + Overhead :
         longer[i * (c + Overhead) + k] = Frame(i, PieceAt(c, l, i))[k]
  BY <1>9, (n + 1) - 1 = n
<1>11. Frames(c, l, longer, n + 1)
  BY <1>7, <1>8, <1>10 DEF Frames
<1> QED BY <1>11 DEF longer, next


-------------------------------------------------------------------------------
(* Streaming: the invariant. *)

StreamTypes ==
  /\ len \in Nat /\ chunk_size \in 0 .. MaxU32 /\ index \in 0 .. MaxU32 /\ total_len \in 0 .. MaxU64
  /\ leaves \in Seq(LeafSet)

\* What is sealed is the beginning of the one way to cut the document.
CutAsFixed ==
  \A i \in 1 .. Len(leaves) : /\ leaves[i] = Leaf(i - 1, PieceAt(chunk_size, len, i - 1))
                              /\ (i - 1) * chunk_size <= len

\* In the loop: all chunks so far are full, and the buffer continues them.
Running ==
  /\ 0 < chunk_size /\ Len(leaves) = index /\ total_len = index * chunk_size
  /\ Len(plaintext) \in 0 .. chunk_size
  /\ plaintext = Bytes(index * chunk_size, Len(plaintext))
  /\ pos = index * chunk_size + Len(plaintext) /\ pos <= len
  /\ ended \in BOOLEAN /\ (ended => pos = len)
  /\ Frames(chunk_size, len, out, index)

\* When it returns: nothing is left, and only an empty document has an empty chunk.
AllSealed ==
  /\ 0 < chunk_size /\ 0 < index /\ Len(leaves) = index /\ total_len = len
  /\ len <= index * chunk_size
  /\ 1 < index => (index - 1) * chunk_size < len
  /\ Frames(chunk_size, len, out, index)

StreamInv ==
  /\ StreamTypes /\ CutAsFixed
  /\ status = "running" => Running
  /\ status = "sealed" => AllSealed

LEMMA StreamBegins == Init => StreamInv
<1> SUFFICES ASSUME Init PROVE StreamInv
  OBVIOUS
<1>1. /\ len \in Nat /\ chunk_size \in 0 .. MaxU32 /\ pos = 0 /\ plaintext = <<>> /\ ended = FALSE
      /\ out = <<>> /\ leaves = <<>> /\ total_len = 0 /\ index = 0
      /\ status = IF chunk_size = 0 THEN "BadLength" ELSE "running"
  BY StreamAssumption DEF Init
<1>2. StreamTypes
  BY <1>1, LayoutAssumption, EmptySeq DEF StreamTypes
<1>3. CutAsFixed
  BY <1>1, EmptySeq DEF CutAsFixed
<1>4. ASSUME status = "running" PROVE Running
  <2>1. chunk_size \in Nat \ {0} /\ index * chunk_size = 0 /\ Len(plaintext) = 0 /\ Len(leaves) = 0
    BY <1>1, <1>4, LayoutAssumption, EmptySeq
  <2>2. Frames(chunk_size, len, out, index)
    BY <1>1, <2>1, NoFrames
  <2>3. plaintext = Bytes(index * chunk_size, Len(plaintext))
    BY <1>1, <2>1 DEF Bytes
  <2>4. 0 < chunk_size /\ Len(plaintext) \in 0 .. chunk_size /\ pos = 0 + 0 /\ pos <= len
    BY <1>1, <2>1
  <2>5. ended \in BOOLEAN /\ ~ended
    BY <1>1
  <2>6. Len(leaves) = index /\ total_len = index * chunk_size /\ pos = index * chunk_size + Len(plaintext)
    BY <1>1, <2>1
  <2> QED BY <2>2, <2>3, <2>4, <2>5, <2>6 DEF Running
<1> QED BY <1>1, <1>2, <1>3, <1>4 DEF StreamInv

\* What has to be seen when leaves and their cut are left alone.
LEMMA StreamKept ==
  ASSUME StreamInv, UNCHANGED <<len, chunk_size, leaves, index, total_len>>
  PROVE  (StreamTypes /\ CutAsFixed)'
BY DEF StreamInv, StreamTypes, CutAsFixed

LEMMA LoopTypes ==
  ASSUME StreamInv, status = "running"
  PROVE  /\ Running /\ len \in Nat /\ chunk_size \in Nat \ {0} /\ index \in Nat
         /\ index * chunk_size \in Nat /\ index * chunk_size <= len
         /\ Len(plaintext) \in Nat /\ Len(plaintext) <= chunk_size
         /\ pos = index * chunk_size + Len(plaintext) /\ pos \in Nat /\ pos <= len
<1>1. Running /\ StreamTypes
  BY DEF StreamInv
<1>2. len \in Nat /\ chunk_size \in Nat \ {0} /\ index \in Nat /\ Len(plaintext) \in Nat
      /\ Len(plaintext) <= chunk_size
  BY <1>1, LayoutAssumption DEF Running, StreamTypes
<1>3. index * chunk_size \in Nat
  BY <1>2, ChunksStart
<1> DEFINE full == index * chunk_size
<1>4. pos = full + Len(plaintext) /\ pos <= len
  BY <1>1 DEF Running
<1>5. full \in Nat
  BY <1>3
<1>6. pos \in Nat /\ full <= len
  <2> HIDE DEF full
  <2> QED BY <1>2, <1>4, <1>5
<1> QED BY <1>1, <1>2, <1>3, <1>4, <1>6

LEMMA StreamGives ==
  ASSUME StreamInv, NEW n \in 1 .. len, SourceGives(n)
  PROVE  StreamInv'
<1>1. /\ status = "running" /\ ~ended /\ n <= chunk_size - Len(plaintext) /\ n <= len - pos
      /\ plaintext' = plaintext \o Bytes(pos, n) /\ pos' = pos + n
      /\ UNCHANGED <<len, chunk_size, ended, out, leaves, total_len, index, status>>
  BY DEF SourceGives, Filling, capacity
<1>2. /\ Running /\ len \in Nat /\ chunk_size \in Nat \ {0} /\ index \in Nat
      /\ index * chunk_size \in Nat /\ Len(plaintext) \in Nat /\ pos = index * chunk_size + Len(plaintext)
  BY <1>1, LoopTypes
<1>n. n \in Nat
  BY <1>2
<1> DEFINE from == index * chunk_size
           m == Len(plaintext)
<1>3. plaintext = Bytes(from, m) /\ pos = from + m
  BY <1>2 DEF Running
<1>4. plaintext' = Bytes(from, m + n)
  <2> HIDE DEF from, m
  <2>1. from \in Nat /\ m \in Nat
    BY <1>2 DEF from, m
  <2> QED BY <2>1, <1>1, <1>3, <1>n, BytesJoin
<1>5. Len(plaintext') = m + n
  <2>1. from \in Nat /\ m + n \in Nat
    BY <1>2, <1>n
  <2> HIDE DEF from, m
  <2> QED BY <2>1, <1>4, BytesAre
<1>6. m + n \in 0 .. chunk_size /\ pos + n <= len /\ pos + n = from + (m + n)
  <2>1. /\ from \in Nat /\ m \in Nat /\ n <= chunk_size - m /\ chunk_size \in Nat
        /\ n <= len - pos /\ len \in Nat /\ pos = from + m
    BY <1>1, <1>2, <1>3
  <2> HIDE DEF from, m
  <2> QED BY <2>1, <1>n
<1>7. Running'
  BY <1>1, <1>2, <1>4, <1>5, <1>6 DEF Running
<1>8. (StreamTypes /\ CutAsFixed)'
  BY <1>1, StreamKept
<1> QED BY <1>1, <1>7, <1>8 DEF StreamInv

LEMMA StreamFinishes ==
  ASSUME StreamInv, Finish
  PROVE  StreamInv'
<1>1. /\ status = "running" /\ (ended \/ Len(plaintext) = chunk_size) /\ plaintext = <<>> /\ index > 0
      /\ status' = "sealed"
      /\ UNCHANGED <<len, chunk_size, pos, plaintext, ended, out, leaves, total_len, index>>
  BY DEF Finish, Filled, NothingLeft, capacity
<1>2. /\ Running /\ len \in Nat /\ chunk_size \in Nat \ {0} /\ index \in Nat
      /\ index * chunk_size \in Nat /\ pos = index * chunk_size + Len(plaintext)
  BY <1>1, LoopTypes
<1>3. Len(plaintext) = 0
  BY <1>1, EmptySeq
<1>4. pos = len /\ total_len = index * chunk_size /\ Len(leaves) = index /\ Frames(chunk_size, len, out, index)
  BY <1>1, <1>2, <1>3 DEF Running
<1> DEFINE full == index * chunk_size
<1>5. full = len
  BY <1>2, <1>3, <1>4
<1>6. 1 < index => (index - 1) * chunk_size < full
  <2>1. (index - 1) * chunk_size \in Nat /\ (index - 1) * chunk_size + chunk_size <= full
    BY <1>1, <1>2, ChunksAscend, index - 1 \in Nat, index - 1 < index
  <2> DEFINE before == (index - 1) * chunk_size
  <2>2. before \in Nat /\ before + chunk_size <= full /\ full \in Nat
    BY <2>1, <1>2
  <2>3. before < full
    <3> HIDE DEF before, full
    <3> QED BY <2>2, <1>2
  <2> QED BY <2>3
<1>7. AllSealed'
  <2>1. total_len = len /\ len <= full /\ (1 < index => (index - 1) * chunk_size < len)
    BY <1>2, <1>4, <1>5, <1>6
  <2> QED BY <2>1, <1>1, <1>2, <1>4 DEF AllSealed
<1>8. (StreamTypes /\ CutAsFixed)'
  BY <1>1, StreamKept
<1> QED BY <1>1, <1>7, <1>8 DEF StreamInv

LEMMA StreamSeals ==
  ASSUME StreamInv, SealChunk
  PROVE  StreamInv'
<1> DEFINE c == chunk_size
           from == index * chunk_size
           m == Len(plaintext)
<1>1. /\ status = "running" /\ (ended \/ m = c) /\ (plaintext # <<>> \/ ~(index > 0))
      /\ out' = out \o Frame(index, plaintext)
      /\ leaves' = Append(leaves, Leaf(index, plaintext))
      /\ status' = AfterChunk
      /\ total_len' = IF total_len + m > MaxU64 THEN total_len ELSE total_len + m
      /\ index' = IF AfterChunk = "TooLarge" THEN index ELSE index + 1
      /\ plaintext' = <<>>
      /\ UNCHANGED <<len, chunk_size, pos, ended>>
  BY DEF SealChunk, Filled, NothingLeft, capacity
<1>2. /\ Running /\ len \in Nat /\ c \in Nat \ {0} /\ index \in Nat /\ from \in Nat /\ from <= len
      /\ m \in Nat /\ m <= c /\ pos = from + m /\ pos <= len
  BY <1>1, LoopTypes
<1>3. /\ total_len = from /\ Len(leaves) = index /\ plaintext = Bytes(from, m)
      /\ (ended => pos = len) /\ ended \in BOOLEAN /\ Frames(c, len, out, index)
  BY <1>2 DEF Running
<1>4. StreamTypes /\ CutAsFixed
  BY DEF StreamInv
<1>5. plaintext = PieceAt(c, len, index) /\ plaintext \in Seq(Nat)
  <2>1. LengthAt(c, len, index) = m
    <3>1. LengthAt(c, len, index) = LeastOf(c, len - from)
      BY DEF LengthAt
    <3> HIDE DEF from, m, c
    <3> QED BY <3>1, <1>1, <1>2, <1>3 DEF LeastOf
  <2>2. plaintext \in Seq(Nat)
    <3> HIDE DEF from, m, c
    <3> QED BY <1>2, <1>3, BytesAre
  <2> QED BY <2>1, <2>2, <1>3 DEF PieceAt
<1>6. AfterChunk = IF from + m > MaxU64 \/ index + 1 > MaxU32 THEN "TooLarge"
                   ELSE IF m < c THEN "sealed" ELSE "running"
  BY <1>3 DEF AfterChunk, capacity
<1> DEFINE leaf == Leaf(index, plaintext)
<1>7. leaf \in LeafSet
  BY <1>2, <1>5 DEF Leaf, LeafSet
<1>8. /\ leaves' \in Seq(LeafSet) /\ Len(leaves') = index + 1 /\ leaves'[index + 1] = leaf
      /\ \A i \in 1 .. index : leaves'[i] = leaves[i]
  <2>1. leaves \in Seq(LeafSet) /\ leaves' = Append(leaves, leaf)
    BY <1>1, <1>4 DEF StreamTypes
  <2> HIDE DEF leaf
  <2> QED BY <2>1, <1>3, <1>7, AppendProperties
<1>9. CutAsFixed'
  <2> SUFFICES ASSUME NEW i \in 1 .. index + 1
               PROVE  /\ leaves'[i] = Leaf(i - 1, PieceAt(c, len, i - 1))
                      /\ (i - 1) * c <= len
    BY <1>1, <1>8 DEF CutAsFixed
  <2>1. CASE i = index + 1
    <3>1. i - 1 = index
      BY <2>1, <1>2
    <3> QED BY <2>1, <3>1, <1>2, <1>5, <1>8
  <2>2. CASE i \in 1 .. index
    BY <2>2, <1>3, <1>4, <1>8 DEF CutAsFixed
  <2> QED BY <2>1, <2>2, <1>2
<1>10. StreamTypes'
  <2>1. total_len' \in 0 .. MaxU64 /\ index' \in 0 .. MaxU32
    <3>1. total_len \in 0 .. MaxU64 /\ index \in 0 .. MaxU32
      BY <1>4 DEF StreamTypes
    <3>2. index' \in 0 .. MaxU32
      <4> HIDE DEF from, m, c
      <4> QED BY <3>1, <1>1, <1>2, <1>6, LayoutAssumption
    <3>3. total_len' \in 0 .. MaxU64
      <4> HIDE DEF from, m, c
      <4> QED BY <3>1, <1>1, <1>2, LayoutAssumption
    <3> QED BY <3>2, <3>3
  <2> QED BY <2>1, <1>1, <1>4, <1>8 DEF StreamTypes
<1>11. Frames(c, len, out', index + 1)
  <2> HIDE DEF c
  <2> QED BY <1>1, <1>2, <1>3, <1>5, FramesGrow DEF c
<1>12. ASSUME AfterChunk # "TooLarge"
       PROVE  index' = index + 1 /\ total_len' = from + m /\ (index + 1) * c = from + c
  <2>1. (index + 1) * c = from + c
    BY <1>2, ChunksStart
  <2>2. ~(from + m > MaxU64)
    BY <1>6, <1>12
  <2> QED BY <2>1, <2>2, <1>1, <1>3, <1>12
<1>13. ASSUME status' = "running" PROVE Running'
  <2>1. AfterChunk = "running" /\ m = c
    <3> HIDE DEF from, m, c
    <3> QED BY <1>1, <1>2, <1>6, <1>13
  <2>2. index' = index + 1 /\ total_len' = (index + 1) * c /\ pos = (index + 1) * c /\ (index + 1) * c \in Nat
    BY <2>1, <1>2, <1>12
  <2>3. Len(plaintext') = 0 /\ plaintext' = Bytes((index + 1) * c, 0)
    BY <1>1, EmptySeq DEF Bytes
  <2>4. pos = (index + 1) * c + 0
    BY <2>2
  <2> QED BY <2>2, <2>3, <2>4, <1>1, <1>2, <1>3, <1>8, <1>11 DEF Running
<1>14. ASSUME status' = "sealed" PROVE AllSealed'
  <2>1. AfterChunk = "sealed" /\ m < c
    <3> HIDE DEF from, m, c
    <3> QED BY <1>1, <1>2, <1>6, <1>14
  <2>2. index' = index + 1 /\ total_len' = from + m /\ (index + 1) * c = from + c
    BY <2>1, <1>12
  <2>3. len = from + m
    <3>1. ended
      BY <2>1, <1>1, <1>2
    <3> QED BY <3>1, <1>2, <1>3
  <2>4. 0 < index => from < len
    <3>1. ASSUME 0 < index PROVE m # 0
      <4>1. plaintext # <<>>
        BY <3>1, <1>1, <1>2
      <4> QED BY <4>1, <1>5, EmptySeq
    <3> HIDE DEF from, m
    <3> QED BY <3>1, <2>3, <1>2
  <2>5. len <= (index + 1) * c /\ total_len' = len
    <3> HIDE DEF from, m, c
    <3> QED BY <2>1, <2>2, <2>3, <1>2
  <2>6. (index + 1) - 1 = index
    BY <1>2
  <2>7. 1 < index + 1 => ((index + 1) - 1) * c < len
    BY <2>4, <2>6, <1>2
  <2>8. 0 < c /\ 0 < index + 1
    BY <1>2
  <2> QED BY <2>2, <2>5, <2>7, <2>8, <1>1, <1>8, <1>11 DEF AllSealed
<1> QED BY <1>9, <1>10, <1>13, <1>14 DEF StreamInv

LEMMA StreamStep ==
  ASSUME StreamInv, [Next]_vars
  PROVE  StreamInv'
<1>1. ASSUME NEW n \in 1 .. len, SourceGives(n) PROVE StreamInv'
  BY <1>1, StreamGives
<1>2. ASSUME SourceEnds PROVE StreamInv'
  <2>1. /\ status = "running" /\ pos = len /\ ended' = TRUE
        /\ UNCHANGED <<len, chunk_size, pos, plaintext, out, leaves, total_len, index, status>>
    BY <1>2 DEF SourceEnds, Filling
  <2>2. Running'
    BY <2>1 DEF StreamInv, Running
  <2>3. (StreamTypes /\ CutAsFixed)'
    BY <2>1, StreamKept
  <2> QED BY <2>1, <2>2, <2>3 DEF StreamInv
<1>3. ASSUME Finish PROVE StreamInv'
  BY <1>3, StreamFinishes
<1>4. ASSUME SealChunk PROVE StreamInv'
  BY <1>4, StreamSeals
<1>5. ASSUME SourceOverstates \/ SourceFails \/ SinkFails PROVE StreamInv'
  <2>1. /\ status' \in {"BadLength", "Host"}
        /\ UNCHANGED <<len, chunk_size, leaves, total_len, index>>
    BY <1>5 DEF SourceOverstates, SourceFails, SinkFails
  <2>2. (StreamTypes /\ CutAsFixed)'
    BY <2>1, StreamKept
  <2> QED BY <2>1, <2>2 DEF StreamInv
<1>6. ASSUME UNCHANGED vars PROVE StreamInv'
  BY <1>6 DEF vars, StreamInv, StreamTypes, CutAsFixed, Running, AllSealed
<1> QED BY <1>1, <1>2, <1>3, <1>4, <1>5, <1>6 DEF Next, Work, Failure


-------------------------------------------------------------------------------
(* Streaming: what the reader makes of it. *)

\* Every offset of a document lies in one of its chunks, and there it is.
LEMMA OffsetFound ==
  ASSUME NEW c \in Nat \ {0}, NEW l \in Nat, NEW n \in Nat, l <= n * c, NEW b \in Nat, b < l
  PROVE  /\ b \div c \in Nat /\ b \div c < n /\ (b \div c) * c <= l
         /\ (b % c) + 1 \in 1 .. LengthAt(c, l, b \div c)
         /\ PieceAt(c, l, b \div c)[(b % c) + 1] = b
<1> DEFINE q == b \div c
           r == b % c
           from == q * c
<1>1. q \in Nat /\ r \in 0 .. c - 1 /\ b = from + r
  BY OffsetInChunk
<1>2. from \in Nat
  BY <1>1, ChunksStart
<1>3. q < n
  <2> SUFFICES ASSUME n <= q PROVE FALSE
    BY <1>1
  <2> DEFINE end == n * c
  <2>1. end \in Nat /\ end <= from
    <3>1. CASE n = q
      BY <3>1, <1>2
    <3>2. CASE n < q
      <4>1. n * c \in Nat /\ n * c + c <= q * c
        BY <3>2, <1>1, ChunksAscend
      <4>2. end \in Nat /\ end + c <= from
        BY <4>1
      <4> HIDE DEF end, from
      <4> QED BY <4>2, <1>2
    <3> QED BY <3>1, <3>2, <1>1
  <2>2. l <= end
    OBVIOUS
  <2> HIDE DEF end, from, q, r
  <2> QED BY <2>1, <2>2, <1>1, <1>2
<1>4. from <= l
  <2> HIDE DEF from, q, r
  <2> QED BY <1>1, <1>2
<1>5. /\ LengthAt(c, l, q) = LeastOf(c, l - from)
      /\ \A k \in 1 .. LengthAt(c, l, q) : PieceAt(c, l, q)[k] = from + k - 1
  <2>1. q \in Nat /\ q * c <= l
    BY <1>1, <1>4
  <2> HIDE DEF q
  <2>2. LengthAt(c, l, q) = LeastOf(c, l - q * c)
    BY <2>1, PieceIs
  <2>3. ASSUME NEW k \in 1 .. LengthAt(c, l, q) PROVE PieceAt(c, l, q)[k] = q * c + k - 1
    BY <2>1, PieceByte
  <2> QED BY <2>2, <2>3
<1>6. r + 1 \in 1 .. LengthAt(c, l, q)
  <2> HIDE DEF from, q, r
  <2> QED BY <1>1, <1>2, <1>4, <1>5 DEF LeastOf
<1>7. PieceAt(c, l, q)[r + 1] = from + (r + 1) - 1
  BY <1>5, <1>6
<1>8. from + (r + 1) - 1 = b
  <2> HIDE DEF from, q, r
  <2> QED BY <1>1, <1>2
<1> QED BY <1>1, <1>3, <1>4, <1>6, <1>7, <1>8

\* What stands in a chunk is of the document, and its offset leads to the chunk.
LEMMA PieceLeadsBack ==
  ASSUME NEW c \in Nat \ {0}, NEW l \in Nat, NEW i \in Nat, i * c <= l,
         NEW k \in 1 .. LengthAt(c, l, i)
  PROVE  /\ PieceAt(c, l, i)[k] \in Nat /\ PieceAt(c, l, i)[k] < l
         /\ PieceAt(c, l, i)[k] \div c = i
<1> DEFINE from == i * c
           n == LengthAt(c, l, i)
           b == from + k - 1
<1>1. /\ from \in Nat /\ n \in Nat /\ n <= c /\ from + n <= l /\ PieceAt(c, l, i)[k] = b
  BY PieceIs
<1>2. b \in Nat /\ b < l /\ from <= b /\ b < from + c
  <2> HIDE DEF from, n
  <2> QED BY <1>1 DEF n
<1>3. b \div c = i
  <2>1. i * c <= b /\ b < i * c + c
    BY <1>2
  <2> HIDE DEF b, from
  <2> QED BY <2>1, <1>2, ChunkOfSpan
<1> HIDE DEF b
<1> QED BY <1>1, <1>2, <1>3

LEMMA ChunksOrdered ==
  ASSUME NEW c \in Nat \ {0}, NEW a \in Nat, NEW b \in Nat, a <= b
  PROVE  a \div c <= b \div c
<1> DEFINE p == a \div c
           q == b \div c
<1>1. /\ p \in Nat /\ q \in Nat /\ p * c <= a /\ b < q * c + c
  BY OffsetInChunk
<1>2. q < p => q * c \in Nat /\ p * c \in Nat /\ q * c + c <= p * c
  BY <1>1, ChunksAscend
<1> DEFINE pc == p * c
           qc == q * c
<1>3. /\ pc <= a /\ b < qc + c
      /\ q < p => qc \in Nat /\ pc \in Nat /\ qc + c <= pc
  BY <1>1, <1>2
<1>4. ~(q < p)
  <2> HIDE DEF p, q, pc, qc
  <2> QED BY <1>3
<1> HIDE DEF p, q
<1>5. p <= q
  BY <1>1, <1>4
<1> QED BY <1>5 DEF p, q

LEMMA SealedTypes ==
  ASSUME StreamInv, status = "sealed"
  PROVE  /\ AllSealed /\ len \in Nat /\ chunk_size \in Nat \ {0} /\ index \in Nat \ {0}
         /\ index <= MaxU32 /\ len <= MaxU64 /\ len <= index * chunk_size
         /\ Len(leaves) = index /\ total_len = len
         /\ index * chunk_size \in Nat
BY LayoutAssumption, ChunksStart DEF StreamInv, StreamTypes, AllSealed

LEMMA LeavesAre ==
  ASSUME StreamInv, NEW i \in 1 .. Len(leaves)
  PROVE  /\ leaves[i].bytes = PieceAt(chunk_size, len, i - 1)
         /\ (i - 1) * chunk_size <= len
<1>1. /\ leaves[i] = Leaf(i - 1, PieceAt(chunk_size, len, i - 1))
      /\ (i - 1) * chunk_size <= len
  BY DEF StreamInv, CutAsFixed
<1>2. \A p : Leaf(i - 1, p).bytes = p
  BY DEF Leaf
<1> QED BY <1>1, <1>2

LEMMA BoundariesAreFixed == StreamInv => BoundariesFixed
<1> SUFFICES ASSUME StreamInv PROVE BoundariesFixed
  OBVIOUS
<1>1. \A i : ChunkAt(i) = PieceAt(chunk_size, len, i)
  BY DEF ChunkAt, PieceAt, LengthAt
<1>2. \A i \in 1 .. Len(leaves) : leaves[i] = Leaf(i - 1, ChunkAt(i - 1))
  BY <1>1 DEF StreamInv, CutAsFixed
<1>3. ASSUME status = "sealed", NEW b \in 0 .. len - 1
      PROVE  \E i \in 1 .. Len(leaves) : \E k \in DOMAIN leaves[i].bytes : leaves[i].bytes[k] = b
  <2> DEFINE c == chunk_size
             q == b \div c
  <2>1. len \in Nat /\ c \in Nat \ {0} /\ index \in Nat /\ len <= index * c /\ Len(leaves) = index
    BY <1>3, SealedTypes
  <2>2. b \in Nat /\ b < len
    BY <2>1
  <2>3. /\ q \in Nat /\ q < index /\ q * c <= len
        /\ (b % c) + 1 \in 1 .. LengthAt(c, len, q)
        /\ PieceAt(c, len, q)[(b % c) + 1] = b
    BY <2>1, <2>2, OffsetFound
  <2> HIDE DEF q
  <2>4. DOMAIN PieceAt(c, len, q) = 1 .. LengthAt(c, len, q)
    BY <2>1, <2>3, PieceIs
  <2>5. q + 1 \in 1 .. Len(leaves) /\ (q + 1) - 1 = q
    BY <2>1, <2>3
  <2>6. leaves[q + 1].bytes = PieceAt(c, len, q)
    BY <2>5, LeavesAre
  <2> QED BY <2>3, <2>4, <2>5, <2>6
<1>4. status = "sealed" => total_len = len
  BY SealedTypes
<1> QED BY <1>2, <1>3, <1>4 DEF BoundariesFixed

LEMMA ReadsAreExact == StreamInv => ReadsOpenWhatTheyNeed
<1> DEFINE c == chunk_size
<1> SUFFICES ASSUME StreamInv, status = "sealed", c \in ChunkSizes,
                    NEW offset \in 0 .. MaxU64, NEW n \in 0 .. MaxU64 - offset, NEW range,
                    range = chunks_for(View, offset, n), NEW i \in 0 .. index - 1
             PROVE  range.first <= i /\ i < range.end
                      <=> \E k \in DOMAIN leaves[i + 1].bytes :
                            offset <= leaves[i + 1].bytes[k] /\ leaves[i + 1].bytes[k] < offset + n
  BY DEF ReadsOpenWhatTheyNeed
<1>1. /\ len \in Nat /\ c \in Nat \ {0} /\ index \in Nat \ {0} /\ index <= MaxU32
      /\ len <= index * c /\ Len(leaves) = index /\ total_len = len
  BY SealedTypes
<1>2. offset \in Nat /\ n \in Nat /\ offset + n <= MaxU64 /\ i \in Nat /\ i < index
      /\ MaxU32 \in Nat /\ MaxU64 \in Nat
  BY <1>1, LayoutAssumption
<1> DEFINE bytes == PieceAt(c, len, i)
           size == LengthAt(c, len, i)
           from == i * c
           Asked(b) == offset <= b /\ b < offset + n
<1>3. leaves[i + 1].bytes = bytes /\ from <= len
  <2>1. i + 1 \in 1 .. Len(leaves) /\ (i + 1) - 1 = i
    BY <1>1, <1>2
  <2> QED BY <2>1, LeavesAre
<1>4. /\ from \in Nat /\ size \in Nat /\ DOMAIN bytes = 1 .. size
      /\ size = LeastOf(c, len - from)
      /\ \A k \in 1 .. size : bytes[k] = from + k - 1
  <2>1. c \in Nat \ {0} /\ len \in Nat /\ i \in Nat /\ i * c <= len
    BY <1>1, <1>2, <1>3
  <2> HIDE DEF c
  <2>2. /\ i * c \in Nat /\ LengthAt(c, len, i) \in Nat
        /\ DOMAIN PieceAt(c, len, i) = 1 .. LengthAt(c, len, i)
        /\ LengthAt(c, len, i) = LeastOf(c, len - i * c)
    <3>1. i * c \in Nat /\ LengthAt(c, len, i) \in Nat
      BY <2>1, PieceIs
    <3>2. DOMAIN PieceAt(c, len, i) = 1 .. LengthAt(c, len, i)
      BY <2>1, PieceIs
    <3>3. LengthAt(c, len, i) = LeastOf(c, len - i * c)
      BY DEF LengthAt
    <3> QED BY <3>1, <3>2, <3>3
  <2>3. ASSUME NEW k \in 1 .. LengthAt(c, len, i) PROVE PieceAt(c, len, i)[k] = i * c + k - 1
    BY <2>1, PieceByte
  <2> QED BY <2>2, <2>3
<1>5. \A k \in 1 .. size : bytes[k] \in Nat /\ bytes[k] < len /\ bytes[k] \div c = i
  BY <1>1, <1>2, <1>3, PieceLeadsBack
<1>6. View = layout(c, index, len, PayloadOffset)
  BY <1>1 DEF View
<1>v. View.chunk_size = c /\ View.chunk_count = index /\ View.total_len = len
  BY <1>6 DEF layout
<1>7. CASE n = 0 \/ offset >= len
  <2>1. range.first = 0 /\ range.end = 0
    BY <1>7, <1>v DEF chunks_for, EmptyRead
  <2>2. ~(\E k \in DOMAIN bytes : Asked(bytes[k]))
    <3> SUFFICES ASSUME NEW k \in 1 .. size, Asked(bytes[k]) PROVE FALSE
      BY <1>4
    <3>1. PICK b : b = bytes[k]
      OBVIOUS
    <3> HIDE DEF bytes, size
    <3> QED BY <3>1, <1>1, <1>2, <1>5, <1>7
  <2> QED BY <2>1, <2>2, <1>2, <1>3
<1>8. CASE ~(n = 0) /\ ~(offset >= len)
  <2> DEFINE last_byte == LeastOf(offset + n - 1, len - 1)
             first == offset \div c
             last == last_byte \div c
  <2>1. /\ last_byte \in Nat /\ last_byte < len /\ offset <= last_byte /\ last_byte < offset + n
        /\ offset < len
        /\ \A b \in Nat : b < len /\ b < offset + n => b <= last_byte
    BY <1>1, <1>2, <1>8 DEF LeastOf
  <2> HIDE DEF last_byte
  <2>2. first \in Nat /\ first < index /\ last \in Nat /\ last < index
    BY <1>1, <1>2, <2>1, OffsetFound
  <2>3. ~Failed(checked(offset + n))
    BY <1>2 DEF Failed, checked
  <2>4. chunk_of(View, offset) = first /\ chunk_of(View, last_byte) = last
    <3> HIDE DEF first, last
    <3>1. /\ chunk_of(View, offset) = IF first > MaxU32 THEN Overflow
                                      ELSE IF first >= index THEN OutOfRange ELSE first
          /\ chunk_of(View, last_byte) = IF last > MaxU32 THEN Overflow
                                         ELSE IF last >= index THEN OutOfRange ELSE last
      BY <1>v DEF chunk_of, first, last
    <3> QED BY <3>1, <2>2, <1>1, <1>2
  <2> HIDE DEF first, last
  <2>5. ~(Failed(first) \/ Failed(last) \/ last + 1 > MaxU32)
    BY <2>2, <1>1, <1>2 DEF Failed
  <2>6. range.first = first /\ range.end = last + 1
    <3>1. range = IF Failed(first) \/ Failed(last) \/ last + 1 > MaxU32 THEN Refused
                  ELSE [first |-> first, end |-> last + 1]
      BY <1>8, <1>v, <2>3, <2>4 DEF chunks_for, last_byte
    <3> QED BY <3>1, <2>5
  <2>7. ASSUME NEW k \in 1 .. size, Asked(bytes[k]) PROVE first <= i /\ i <= last
    <3>1. PICK b : b = bytes[k]
      OBVIOUS
    <3>2. b \in Nat /\ b < len /\ b \div c = i /\ offset <= b /\ b < offset + n
      BY <3>1, <2>7, <1>5
    <3>3. b <= last_byte
      BY <3>2, <2>1
    <3>4. first <= b \div c
      BY <3>2, <1>1, <1>2, ChunksOrdered DEF first
    <3>5. b \div c <= last
      BY <3>2, <3>3, <2>1, <1>1, ChunksOrdered DEF last
    <3> QED BY <3>2, <3>4, <3>5
  <2>8. ASSUME first <= i, i <= last PROVE \E k \in 1 .. size : Asked(bytes[k])
    <3>1. CASE i = first
      <4>1. /\ (offset % c) + 1 \in 1 .. size /\ bytes[(offset % c) + 1] = offset
        BY <3>1, <1>1, <1>2, <2>1, OffsetFound DEF first
      <4> QED BY <4>1, <1>2, <1>8
    <3>2. CASE first < i
      <4>1. offset <= from
        <5>1. first * c \in Nat /\ first * c + c <= from
          BY <3>2, <2>2, <1>1, <1>2, ChunksAscend
        <5>2. offset = (first * c) + (offset % c) /\ offset % c \in 0 .. c - 1
          BY <1>1, <1>2, OffsetInChunk DEF first
        <5> DEFINE start == first * c
        <5>3. start \in Nat /\ start + c <= from
          BY <5>1
        <5>4. PICK r \in 0 .. c - 1 : offset = start + r
          BY <5>2
        <5> HIDE DEF start, from
        <5> QED BY <5>3, <5>4, <1>1, <1>2, <1>4
      <4>2. from <= last_byte
        <5>1. last * c \in Nat /\ from <= last * c
          <6>1. CASE i = last
            BY <6>1, <1>4
          <6>2. CASE i < last
            <7>1. last * c \in Nat /\ from + c <= last * c
              BY <6>2, <2>2, <1>1, <1>2, ChunksAscend
            <7> DEFINE end == last * c
            <7>2. end \in Nat /\ from + c <= end
              BY <7>1
            <7>3. from <= end
              <8> HIDE DEF end, from
              <8> QED BY <7>2, <1>1, <1>4
            <7> QED BY <7>1, <7>3
          <6> QED BY <6>1, <6>2, <2>8, <2>2, <1>2
        <5>2. last_byte = (last * c) + (last_byte % c) /\ last_byte % c \in 0 .. c - 1
          BY <1>1, <2>1, OffsetInChunk DEF last
        <5> DEFINE end == last * c
        <5>3. end \in Nat /\ from <= end
          BY <5>1
        <5>4. PICK r \in 0 .. c - 1 : last_byte = end + r
          BY <5>2
        <5> HIDE DEF end, from
        <5> QED BY <5>3, <5>4, <1>1, <1>4
      <4>3. 1 \in 1 .. size /\ bytes[1] = from
        <5>1. 1 \in 1 .. size
          <6> HIDE DEF from, size
          <6> QED BY <4>2, <2>1, <1>1, <1>4 DEF LeastOf
        <5>2. bytes[1] = from + 1 - 1
          BY <5>1, <1>4
        <5> HIDE DEF from, bytes, size
        <5> QED BY <5>1, <5>2, <1>4
      <4>4. Asked(from)
        <5> HIDE DEF from
        <5> QED BY <4>1, <4>2, <2>1, <1>2, <1>4
      <4> QED BY <4>3, <4>4
    <3> QED BY <3>1, <3>2, <2>8, <2>2, <1>2
  <2>9. i < last + 1 <=> i <= last
    BY <2>2, <1>2
  <2> QED BY <2>6, <2>7, <2>8, <2>9, <1>3, <1>4
<1> QED BY <1>7, <1>8


\* The count of chunks that sealing ends with is the one Layout::new computes.
LEMMA CountIsRequired ==
  ASSUME NEW c \in Nat \ {0}, NEW l \in Nat, NEW n \in Nat \ {0}, n <= MaxU32,
         l <= n * c, 1 < n => (n - 1) * c < l
  PROVE  required_chunks(l, c) = n
<1> DEFINE before == (n - 1) * c
           all == n * c
           q == l \div c
           r == l % c
<1>1. before \in Nat /\ all = before + c
  <2>1. before \in Nat /\ ((n - 1) + 1) * c = before + c
    BY ChunksStart, n - 1 \in Nat
  <2> QED BY <2>1, (n - 1) + 1 = n
<1>2. q \in Nat /\ r \in 0 .. c - 1 /\ l = (q * c) + r
  BY OffsetInChunk
<1>3. required_chunks(l, c)
        = LET chunks == IF r = 0 THEN q ELSE q + 1
              atLeastOne == IF chunks = 0 THEN 1 ELSE chunks
          IN  IF atLeastOne > MaxU32 THEN Overflow ELSE atLeastOne
  BY DEF required_chunks
<1>4. CASE l = all
  <2>1. q = n
    <3>1. n * c <= l /\ l < n * c + c
      BY <1>1, <1>4
    <3> QED BY <3>1, ChunkOfSpan
  <2>2. r = 0
    <3>1. q * c = all
      BY <2>1
    <3> HIDE DEF q, r, all, before
    <3> QED BY <3>1, <1>2, <1>4, <1>1
  <2> HIDE DEF q, r
  <2> QED BY <2>1, <2>2, <1>3, LayoutAssumption
<1>5. CASE l < all /\ before < l
  <2>1. q = n - 1
    <3>1. (n - 1) * c <= l /\ l < (n - 1) * c + c /\ n - 1 \in Nat
      BY <1>1, <1>5
    <3> QED BY <3>1, ChunkOfSpan
  <2>2. r # 0
    <3>1. q * c = before
      BY <2>1
    <3> HIDE DEF q, r, all, before
    <3> QED BY <3>1, <1>2, <1>5, <1>1
  <2> HIDE DEF q, r
  <2> QED BY <2>1, <2>2, <1>3, LayoutAssumption
<1>6. CASE l < all /\ ~(before < l)
  <2>1. n = 1
    BY <1>6
  <2>2. before = 0
    BY <2>1
  <2>3. l = 0
    <3> HIDE DEF before, all
    <3> QED BY <2>2, <1>6
  <2>4. q = 0
    <3>1. 0 * c <= l /\ l < 0 * c + c
      BY <2>3
    <3> QED BY <3>1, ChunkOfSpan
  <2>5. r = 0
    <3>1. q * c = 0
      BY <2>4
    <3> HIDE DEF q, r
    <3> QED BY <3>1, <2>3, <1>2
  <2> HIDE DEF q, r
  <2> QED BY <2>1, <2>4, <2>5, <1>3, LayoutAssumption
<1>7. l <= all
  OBVIOUS
<1> HIDE DEF before, all
<1> QED BY <1>1, <1>4, <1>5, <1>6, <1>7

\* The i-th of n frames ends within them, the last one with them.
LEMMA FrameEnds ==
  ASSUME NEW c \in Nat \ {0}, NEW l \in Nat, NEW n \in Nat \ {0},
         l <= n * c, 1 < n => (n - 1) * c < l, NEW i \in 0 .. n - 1
  PROVE  /\ i * c \in Nat /\ i * c <= l /\ LengthAt(c, l, i) \in Nat
         /\ i * (c + Overhead) \in Nat
         /\ i * (c + Overhead) + LengthAt(c, l, i) + Overhead <= l + n * Overhead
         /\ i = n - 1 =>
              i * (c + Overhead) + LengthAt(c, l, i) + Overhead = l + n * Overhead
<1> DEFINE last == n - 1
           before == last * c
           extra == last * Overhead
           all == n * c
           at == i * (c + Overhead)
           size == LengthAt(c, l, i)
<1>o. Overhead \in Nat
  BY LayoutAssumption DEF Overhead
<1>1. last \in Nat /\ i \in Nat /\ i <= last /\ n = last + 1
  OBVIOUS
<1>2. before \in Nat /\ extra \in Nat /\ all = before + c /\ n * Overhead = extra + Overhead
  <2>1. before \in Nat /\ (last + 1) * c = before + c
    BY <1>1, ChunksStart
  <2>2. extra \in Nat /\ (last + 1) * Overhead = extra + Overhead
    BY <1>1, <1>o, ChunksStart
  <2> HIDE DEF last
  <2> QED BY <2>1, <2>2, <1>1
<1>3. before <= l
  <2>1. CASE n = 1
    <3>1. before = 0
      BY <2>1
    <3> HIDE DEF before
    <3> QED BY <3>1
  <2>2. CASE 1 < n
    <3>1. before < l
      BY <2>2
    <3> HIDE DEF before
    <3> QED BY <3>1, <1>2
  <2> QED BY <2>1, <2>2
<1>4. i * c \in Nat /\ i * c <= before
  <2>1. CASE i = last
    BY <2>1, <1>2
  <2>2. CASE i < last
    <3>1. i * c \in Nat /\ i * c + c <= before
      <4> HIDE DEF last
      <4> QED BY <2>2, <1>1, ChunksAscend DEF before
    <3> DEFINE from == i * c
    <3>2. from \in Nat /\ from + c <= before
      BY <3>1
    <3>3. from <= before
      <4> HIDE DEF from, before
      <4> QED BY <3>2, <1>2
    <3> QED BY <3>2, <3>3
  <2> HIDE DEF last
  <2> QED BY <2>1, <2>2, <1>1
<1>5. i * c <= l
  <2> DEFINE from == i * c
  <2>1. from \in Nat /\ from <= before
    BY <1>4
  <2>2. from <= l
    <3> HIDE DEF from, before
    <3> QED BY <2>1, <1>2, <1>3
  <2> QED BY <2>2
<1>6. /\ size \in Nat /\ size <= c
      /\ l <= i * c + c => i * c + size = l
  BY <1>1, <1>5, PieceIs
<1>7. at \in Nat
  BY <1>1, <1>o, ChunksStart
<1>8. CASE i = last
  <2>1. at = before + extra
    <3> HIDE DEF last
    <3> QED BY <1>8, <1>1, <1>o
  <2>2. l <= all
    OBVIOUS
  <2>3. before + size = l
    <3>1. i * c = before
      BY <1>8
    <3>2. l <= before + c
      <4> HIDE DEF before, all
      <4> QED BY <2>2, <1>2
    <3> QED BY <3>1, <3>2, <1>6
  <2>4. at + size + Overhead = l + (extra + Overhead)
    <3> HIDE DEF at, size, before, extra, all
    <3> QED BY <2>1, <2>3, <1>2, <1>6, <1>o
  <2>5. at + size + Overhead = l + n * Overhead
    BY <2>4, <1>2
  <2>6. at + size + Overhead \in Nat
    <3> HIDE DEF at, size
    <3> QED BY <1>6, <1>7, <1>o
  <2> QED BY <2>5, <2>6, <1>4, <1>5, <1>6, <1>7
<1>9. CASE i < last
  <2>1. at + (c + Overhead) <= last * (c + Overhead)
    <3> HIDE DEF last
    <3> QED BY <1>9, <1>1, <1>o, ChunksAscend, c + Overhead \in Nat
  <2>2. last * (c + Overhead) = before + extra
    <3> HIDE DEF last
    <3> QED BY <1>1, <1>o DEF before, extra
  <2>3. at + size + Overhead <= l + (extra + Overhead)
    <3>1. at + (c + Overhead) <= before + extra
      BY <2>1, <2>2
    <3> HIDE DEF at, size, before, extra, all
    <3> QED BY <3>1, <1>2, <1>3, <1>6, <1>7, <1>o
  <2>4. at + size + Overhead <= l + n * Overhead
    BY <2>3, <1>2
  <2>5. i # n - 1
    BY <1>9
  <2> QED BY <2>4, <2>5, <1>4, <1>5, <1>6, <1>7
<1> HIDE DEF last
<1> QED BY <1>1, <1>8, <1>9


\* A full frame's length does not overflow.
LEMMA FullFrame ==
  ASSUME NEW c \in Nat, c <= MaxU32
  PROVE  checked(c + NONCE_LEN + TAG_LEN) = c + Overhead /\ c + Overhead \in Nat
<1>1. /\ c + NONCE_LEN + TAG_LEN \in 0 .. MaxU64 /\ c + NONCE_LEN + TAG_LEN = c + Overhead
  BY LayoutAssumption, StreamAssumption DEF Overhead
<1> QED BY <1>1 DEF checked

\* The checked sums of ciphertext_span either fit or are refused.
LEMMA CheckedSums ==
  ASSUME NEW at \in Nat, NEW size \in Nat, NEW start, NEW end,
         start = IF Failed(checked(at)) THEN Overflow ELSE checked_add(checked(at), PayloadOffset),
         end = checked_add(checked_add(checked_add(start, NONCE_LEN), size), TAG_LEN)
  PROVE  IF PayloadOffset + at + size + Overhead <= MaxU64
         THEN /\ start = PayloadOffset + at /\ ~Failed(start)
              /\ end = PayloadOffset + at + size + Overhead /\ ~Failed(end)
         ELSE Failed(end)
<1>a. /\ MaxU64 \in Nat /\ NONCE_LEN \in Nat /\ TAG_LEN \in Nat
      /\ PayloadOffset \in Nat /\ Overhead = NONCE_LEN + TAG_LEN
  BY LayoutAssumption, StreamAssumption DEF Overhead
<1>1. start = IF at + PayloadOffset <= MaxU64 THEN at + PayloadOffset ELSE Overflow
  BY <1>a DEF checked, checked_add, Failed, Overflow
<1>2. end = IF PayloadOffset + at + size + Overhead <= MaxU64 THEN PayloadOffset + at + size + Overhead
            ELSE Overflow
  BY <1>1, <1>a DEF checked, checked_add, Failed, Overflow
<1> QED BY <1>1, <1>2, <1>a DEF Failed, Overflow

\* The span of a frame, computed without wrapping: where it was written, or
\* refused when it would end past the last u64.
LEMMA SpanIs ==
  ASSUME NEW c \in Nat \ {0}, c <= MaxU32, NEW l \in Nat, l <= MaxU64, NEW n \in Nat \ {0},
         NEW i \in 0 .. n - 1, i * c \in Nat, i * c <= l,
         NEW view, view = layout(c, n, l, PayloadOffset),
         NEW at, at = i * (c + Overhead), at \in Nat,
         NEW size, size = LengthAt(c, l, i), size \in Nat
  PROVE  IF PayloadOffset + at + size + Overhead <= MaxU64
         THEN /\ ciphertext_span(view, i).start = PayloadOffset + at
              /\ ciphertext_span(view, i).end = PayloadOffset + at + size + Overhead
         ELSE Failed(ciphertext_span(view, i).end)
<1>a. /\ MaxU32 \in Nat /\ MaxU64 \in Nat /\ NONCE_LEN \in Nat /\ TAG_LEN \in Nat
      /\ PayloadOffset \in Nat /\ PayloadOffset <= MaxU64
      /\ MaxU32 + NONCE_LEN + TAG_LEN <= MaxU64 /\ Overhead = NONCE_LEN + TAG_LEN
  BY LayoutAssumption, StreamAssumption DEF Overhead
<1>1. view.chunk_size = c /\ view.chunk_count = n /\ view.total_len = l /\ view.payload_offset = PayloadOffset
  BY DEF layout
<1>2. plaintext_len_of(view, i) = size
  <2> DEFINE from == i * c
             rest == l - from
  <2>1. plaintext_len_of(view, i)
          = IF i >= n THEN OutOfRange
            ELSE IF Failed(checked(from)) THEN Overflow
            ELSE LeastOf(IF rest < 0 THEN 0 ELSE rest, c)
    BY <1>1 DEF plaintext_len_of
  <2>2. size = LeastOf(c, rest)
    BY DEF LengthAt
  <2>3. from \in Nat /\ from <= l
    OBVIOUS
  <2>4. ~(i >= n)
    OBVIOUS
  <2>5. rest = l - from
    OBVIOUS
  <2> HIDE DEF from, rest
  <2>6. ~Failed(checked(from))
    BY <2>3, <1>a DEF Failed, checked
  <2>7. LeastOf(IF rest < 0 THEN 0 ELSE rest, c) = LeastOf(c, rest)
    BY <2>3, <2>5 DEF LeastOf
  <2> QED BY <2>1, <2>2, <2>4, <2>6, <2>7
<1>3. checked(view.chunk_size + NONCE_LEN + TAG_LEN) = c + Overhead /\ c + Overhead \in Nat
  BY <1>1, FullFrame, Zenon
<1> DEFINE start == IF Failed(checked(at)) THEN Overflow ELSE checked_add(checked(at), PayloadOffset)
           end == checked_add(checked_add(checked_add(start, NONCE_LEN), size), TAG_LEN)
<1>4. ~Failed(c + Overhead) /\ ~Failed(size)
  BY <1>3 DEF Failed
<1>5. ciphertext_span(view, i)
        = IF Failed(start) \/ Failed(end) THEN [start |-> Overflow, end |-> Overflow]
          ELSE [start |-> start, end |-> end]
  BY <1>1, <1>2, <1>3, <1>4 DEF ciphertext_span
<1>6. IF PayloadOffset + at + size + Overhead <= MaxU64
      THEN /\ start = PayloadOffset + at /\ ~Failed(start)
           /\ end = PayloadOffset + at + size + Overhead /\ ~Failed(end)
      ELSE Failed(end)
  <2>1. /\ start = IF Failed(checked(at)) THEN Overflow ELSE checked_add(checked(at), PayloadOffset)
        /\ end = checked_add(checked_add(checked_add(start, NONCE_LEN), size), TAG_LEN)
    BY Zenon
  <2> HIDE DEF start, end
  <2> QED BY <2>1, CheckedSums
<1> HIDE DEF start, end
<1>7. Failed(Overflow)
  BY DEF Failed, Overflow
<1>8. CASE PayloadOffset + at + size + Overhead <= MaxU64
  <2>1. ciphertext_span(view, i) = [start |-> start, end |-> end]
    BY <1>5, <1>6, <1>8, Zenon
  <2>2. ciphertext_span(view, i).start = start /\ ciphertext_span(view, i).end = end
    BY <2>1
  <2> QED BY <2>2, <1>6, <1>8, Zenon
<1>9. CASE ~(PayloadOffset + at + size + Overhead <= MaxU64)
  <2>1. ciphertext_span(view, i) = [start |-> Overflow, end |-> Overflow]
    BY <1>5, <1>6, <1>9, Zenon
  <2>2. ciphertext_span(view, i).end = Overflow
    BY <2>1
  <2> QED BY <2>2, <1>7, <1>9, Zenon
<1> QED BY <1>8, <1>9, Zenon

\* Bytes found at their places make up the part they stand in.
LEMMA PartIs ==
  ASSUME NEW S, NEW s \in Seq(S), NEW part \in Seq(S), NEW at \in Nat,
         at + Len(part) <= Len(s),
         \A k \in 1 .. Len(part) : s[at + k] = part[k]
  PROVE  SubSeq(s, at + 1, at + Len(part)) = part
<1> DEFINE cut == SubSeq(s, at + 1, at + Len(part))
           n == Len(part)
<1>1. n \in Nat /\ Len(s) \in Nat
  BY LenProperties
<1>2. \A i \in at + 1 .. at + n : s[i] \in S
  BY <1>1, ElementOfSeq
<1>3. /\ cut \in Seq(S) /\ Len(cut) = n
      /\ \A k \in 1 .. n : cut[k] = s[at + k]
  <2>1. at + 1 \in Int /\ at + n \in Int /\ (at + n) - (at + 1) + 1 = n
        /\ (IF at + 1 <= at + n THEN n ELSE 0) = n
    BY <1>1
  <2>2. cut \in Seq(S) /\ Len(cut) = IF at + 1 <= at + n THEN (at + n) - (at + 1) + 1 ELSE 0
    BY <1>2, <2>1, SubSeqProperties
  <2>3. \A k \in 1 .. (at + n) - (at + 1) + 1 : cut[k] = s[(at + 1) + k - 1]
    <3>1. PICK a \in Int, b \in Int : a = at + 1 /\ b = at + n
      BY <2>1
    <3>2. \A i \in a .. b : s[i] \in S
      BY <3>1, <1>2
    <3>3. \A k \in 1 .. b - a + 1 : SubSeq(s, a, b)[k] = s[a + k - 1]
      BY <3>2, SubSeqProperties
    <3> QED BY <3>1, <3>3
  <2>4. ASSUME NEW k \in 1 .. n PROVE cut[k] = s[at + k]
    <3>1. k \in 1 .. (at + n) - (at + 1) + 1 /\ (at + 1) + k - 1 = at + k
      BY <1>1
    <3> HIDE DEF cut, n
    <3> QED BY <3>1, <2>3
  <2> HIDE DEF cut, n
  <2> QED BY <2>1, <2>2, <2>4
<1> HIDE DEF cut
<1>4. cut = part
  BY <1>1, <1>3, SeqEqual
<1> QED BY <1>4 DEF cut

LEMMA FramesAreFound == StreamInv => ReaderFindsEveryFrame
<1> DEFINE c == chunk_size
<1> SUFFICES ASSUME StreamInv, status = "sealed", c \in ChunkSizes
             PROVE  /\ Consistent(c, index, total_len)
                    /\ IF PayloadOffset + Len(out) <= MaxU64 THEN FramesWhereTheyWereWritten
                       ELSE Failed(ciphertext_span(View, index - 1).end)
  BY DEF ReaderFindsEveryFrame
<1>1. /\ len \in Nat /\ c \in Nat \ {0} /\ index \in Nat \ {0} /\ index <= MaxU32 /\ len <= MaxU64
      /\ len <= index * c /\ Len(leaves) = index /\ total_len = len
      /\ (1 < index => (index - 1) * c < len) /\ Frames(c, len, out, index)
  BY SealedTypes DEF AllSealed
<1>2. Consistent(c, index, total_len)
  BY <1>1, CountIsRequired DEF Consistent
<1>3. View = layout(c, index, len, PayloadOffset) /\ c <= MaxU32
  BY <1>1, LayoutAssumption DEF View
<1> DEFINE At(i) == i * (c + Overhead)
           Size(i) == LengthAt(c, len, i)
<1>4. out \in Seq(FrameBytes) /\ Len(out) = len + index * Overhead
  BY <1>1 DEF Frames, LeastOf
<1>o. Overhead \in Nat /\ PayloadOffset \in Nat /\ Len(out) \in Nat
  BY <1>4, LenProperties, LayoutAssumption, StreamAssumption DEF Overhead
<1>5. ASSUME NEW i \in 0 .. index - 1
      PROVE  /\ i * c \in Nat /\ i * c <= len /\ At(i) \in Nat /\ Size(i) \in Nat
             /\ At(i) + Size(i) + Overhead <= Len(out)
             /\ i = index - 1 => At(i) + Size(i) + Overhead = Len(out)
             /\ IF PayloadOffset + At(i) + Size(i) + Overhead <= MaxU64
                THEN /\ ciphertext_span(View, i).start = PayloadOffset + At(i)
                     /\ ciphertext_span(View, i).end = PayloadOffset + At(i) + Size(i) + Overhead
                ELSE Failed(ciphertext_span(View, i).end)
  <2>1. /\ i * c \in Nat /\ i * c <= len /\ At(i) \in Nat /\ Size(i) \in Nat
        /\ At(i) + Size(i) + Overhead <= Len(out)
        /\ i = index - 1 => At(i) + Size(i) + Overhead = Len(out)
    <3> HIDE DEF c
    <3>1. i * c \in Nat /\ i * c <= len /\ LengthAt(c, len, i) \in Nat /\ i * (c + Overhead) \in Nat
      BY <1>1, FrameEnds
    <3>2. i * (c + Overhead) + LengthAt(c, len, i) + Overhead <= len + index * Overhead
      BY <1>1, FrameEnds
    <3>3. i = index - 1 =>
            i * (c + Overhead) + LengthAt(c, len, i) + Overhead = len + index * Overhead
      BY <1>1, FrameEnds, ZenonT(60)
    <3> QED BY <3>1, <3>2, <3>3, <1>4
  <2>2. PICK at, size : at = At(i) /\ size = Size(i)
    OBVIOUS
  <2>3. IF PayloadOffset + at + size + Overhead <= MaxU64
        THEN /\ ciphertext_span(View, i).start = PayloadOffset + at
             /\ ciphertext_span(View, i).end = PayloadOffset + at + size + Overhead
        ELSE Failed(ciphertext_span(View, i).end)
    <3>1. at = i * (c + Overhead) /\ at \in Nat /\ size = LengthAt(c, len, i) /\ size \in Nat
      BY <2>1, <2>2
    <3> QED BY <3>1, <2>1, <1>1, <1>3, SpanIs
  <2> QED BY <2>1, <2>2, <2>3
<1>6. ASSUME NEW i \in 0 .. index - 1
      PROVE  SubSeq(out, At(i) + 1, At(i) + Size(i) + Overhead) = Frame(i, leaves[i + 1].bytes)
  <2> DEFINE piece == PieceAt(c, len, i)
             frame == Frame(i, piece)
  <2>1. leaves[i + 1].bytes = piece
    <3>1. i + 1 \in 1 .. Len(leaves) /\ (i + 1) - 1 = i
      BY <1>1
    <3> QED BY <3>1, LeavesAre
  <2>2. i \in Nat /\ i * c <= len
    <3>1. i * c <= len
      BY <1>5
    <3>2. index \in Nat
      BY <1>1
    <3> QED BY <3>1, <3>2
  <2>3. piece \in Seq(Nat) /\ Len(piece) = Size(i)
    <3>1. c \in Nat \ {0} /\ len \in Nat
      BY <1>1
    <3> HIDE DEF c
    <3> QED BY <2>2, <3>1, PieceSeq
  <2>4. frame \in Seq(FrameBytes) /\ Len(frame) = Size(i) + Overhead
    <3> HIDE DEF piece
    <3> QED BY <2>2, <2>3, FrameIs
  <2>5. \A k \in 1 .. Size(i) + Overhead : out[At(i) + k] = frame[k]
    BY <1>1 DEF Frames
  <2>6. PICK at, size : at = At(i) /\ size = Size(i) + Overhead
    OBVIOUS
  <2>7. at \in Nat /\ size \in Nat /\ at + size <= Len(out) /\ At(i) + Size(i) + Overhead = at + size
        /\ Len(frame) = size /\ \A k \in 1 .. size : out[at + k] = frame[k]
    <3>1. At(i) \in Nat /\ Size(i) \in Nat /\ At(i) + Size(i) + Overhead <= Len(out)
      BY <1>5
    <3> HIDE DEF At, Size, frame
    <3>2. at \in Nat /\ size \in Nat /\ at + size <= Len(out) /\ At(i) + Size(i) + Overhead = at + size
      BY <3>1, <2>6, <1>o
    <3>3. Len(frame) = size
      BY <2>4, <2>6
    <3>4. \A k \in 1 .. size : out[at + k] = frame[k]
      BY <2>5, <2>6
    <3> QED BY <3>2, <3>3, <3>4
  <2> HIDE DEF frame
  <2>8. SubSeq(out, at + 1, at + Len(frame)) = frame
    BY <2>4, <2>7, <1>4, PartIs
  <2> QED BY <2>1, <2>6, <2>7, <2>8 DEF frame
<1>7. ASSUME PayloadOffset + Len(out) <= MaxU64 PROVE FramesWhereTheyWereWritten
  <2>1. ASSUME NEW i \in 0 .. index - 1
        PROVE  /\ ciphertext_span(View, i).start - PayloadOffset + 1 = At(i) + 1
               /\ ciphertext_span(View, i).end - PayloadOffset = At(i) + Size(i) + Overhead
    <3>1. PICK at, size : at = At(i) /\ size = Size(i)
      OBVIOUS
    <3>2. at \in Nat /\ size \in Nat /\ at + size + Overhead <= Len(out)
      BY <3>1, <1>5
    <3>3. PayloadOffset + at + size + Overhead <= MaxU64
      BY <3>2, <1>7, <1>o, LayoutAssumption
    <3>4. ciphertext_span(View, i).start = PayloadOffset + at
          /\ ciphertext_span(View, i).end = PayloadOffset + at + size + Overhead
      BY <3>1, <3>3, <1>5
    <3>5. ciphertext_span(View, i).start - PayloadOffset + 1 = at + 1
          /\ ciphertext_span(View, i).end - PayloadOffset = at + size + Overhead
      BY <3>2, <3>4, <1>o
    <3> QED BY <3>1, <3>5
  <2>2. index - 1 \in 0 .. index - 1
    BY <1>1
  <2>3. ciphertext_span(View, index - 1).end - PayloadOffset = Len(out)
    BY <2>1, <2>2, <1>5
  <2>4. ASSUME NEW i \in 0 .. index - 1
        PROVE  SubSeq(out, ciphertext_span(View, i).start - PayloadOffset + 1,
                      ciphertext_span(View, i).end - PayloadOffset) = Frame(i, leaves[i + 1].bytes)
    BY <2>1, <1>6
  <2> QED BY <2>3, <2>4 DEF FramesWhereTheyWereWritten
<1>8. ASSUME ~(PayloadOffset + Len(out) <= MaxU64) PROVE Failed(ciphertext_span(View, index - 1).end)
  <2>1. index - 1 \in 0 .. index - 1
    BY <1>1
  <2>2. PICK at, size : at = At(index - 1) /\ size = Size(index - 1)
    OBVIOUS
  <2>3. at \in Nat /\ size \in Nat /\ at + size + Overhead = Len(out)
    BY <2>1, <2>2, <1>5
  <2>4. ~(PayloadOffset + at + size + Overhead <= MaxU64)
    BY <2>3, <1>8, <1>o, LayoutAssumption
  <2> QED BY <2>1, <2>2, <2>4, <1>5
<1> QED BY <1>2, <1>7, <1>8

\* However the source reads, what seal_chunks lets out is cut in the one way
\* the document's length fixes, a reader finds every frame of it through Layout
\* and opens for a range exactly the chunks that hold a byte of it, for every
\* document, chunk size, integer width and place of the payload.
THEOREM SealedIsReadable == Spec => []SealedForTheReader
<1>1. StreamInv => SealedForTheReader
  BY BoundariesAreFixed, FramesAreFound, ReadsAreExact DEF SealedForTheReader
<1>2. StreamInv /\ [Next]_vars => StreamInv'
  BY StreamStep
<1> QED BY <1>1, <1>2, StreamBegins, PTL DEF Spec

===============================================================================

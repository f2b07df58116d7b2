------------------------------ MODULE MerkleTree ------------------------------
(***************************************************************************)
(* The integrity tree of crates/oc-crypto/src/merkle.rs: kept level by     *)
(* level, updated leaf by leaf, with proofs that a leaf is at a position   *)
(* and that one tree is a prefix of another.                               *)
(*                                                                         *)
(* Hashes are terms, so that two are equal when what is hashed is equal:   *)
(* <<0, ...>> a leaf, <<1, left, right>> a node, <<2, count, apex>> a      *)
(* root.  Positions count from 0, as in the code.                          *)
(***************************************************************************)
EXTENDS Integers, Sequences

CONSTANTS
  MaxLeaves,    \* bound: leaves of a tree
  Contents      \* contents a leaf may have

ASSUME TreeAssumption == MaxLeaves \in Nat \ {0} /\ Contents \subseteq Nat

Leaf(content) == <<0, content>>
node_of(left, right) == <<1, left, right>>
root_of(leaf_count, apex) == <<2, leaf_count, apex>>

Last(s) == s[Len(s)]
At(s, i) == s[i + 1]
Half(n) == n \div 2
HalfUp(n) == (n + 1) \div 2

-------------------------------------------------------------------------------
(* The tree. *)

\* A node without a neighbour goes up as it is.
is_promoted(len, index) == len % 2 = 1 /\ index + 1 = len

parent_of(level, index) ==
  IF is_promoted(Len(level), index) THEN At(level, index)
  ELSE LET left == index - (index % 2) IN node_of(At(level, left), At(level, left + 1))

LevelAbove(level) == [k \in 1 .. HalfUp(Len(level)) |-> parent_of(level, 2 * (k - 1))]

RECURSIVE build(_)
build(level) == IF Len(level) = 1 THEN <<level>> ELSE <<level>> \o build(LevelAbove(level))

LeafCount(levels) == Len(levels[1])
RootOf(levels) == root_of(LeafCount(levels), Last(levels)[1])

\* update_leaf from one level up: one node of each level is computed anew.
RECURSIVE Climb(_, _, _)
Climb(levels, depth, position) ==
  IF Len(levels[depth]) = 1 THEN levels
  ELSE Climb([levels EXCEPT ![depth + 1][Half(position) + 1] = parent_of(levels[depth], position)],
             depth + 1, Half(position))

update_leaf(levels, index, leaf) == Climb([levels EXCEPT ![1][index + 1] = leaf], 1, index)

-------------------------------------------------------------------------------
(* Proof of a leaf. *)

RECURSIVE ProofFrom(_, _, _)
ProofFrom(levels, depth, position) ==
  LET level == levels[depth]
      sibling == IF position % 2 = 0 THEN position + 1 ELSE position - 1
  IN  IF Len(level) = 1 THEN <<>>
      ELSE (IF is_promoted(Len(level), position) THEN <<>> ELSE <<At(level, sibling)>>)
             \o ProofFrom(levels, depth + 1, Half(position))

proof(levels, index) == ProofFrom(levels, 1, index)

Unproved == <<>>

\* The apex a path leads to, or Unproved when the path is too short or too long.
RECURSIVE Replay(_, _, _, _)
Replay(accumulator, len, position, path) ==
  IF len = 1 THEN (IF path = <<>> THEN accumulator ELSE Unproved)
  ELSE IF is_promoted(len, position) THEN Replay(accumulator, HalfUp(len), Half(position), path)
  ELSE IF path = <<>> THEN Unproved
  ELSE Replay(IF position % 2 = 0 THEN node_of(accumulator, Head(path)) ELSE node_of(Head(path), accumulator),
              HalfUp(len), Half(position), Tail(path))

verify_proof(root, index, leaf_count, leaf, path) ==
  /\ index < leaf_count
  /\ root_of(leaf_count, Replay(leaf, leaf_count, index, path)) = root

-------------------------------------------------------------------------------
(* Proof that a tree continues another. *)

RECURSIVE split_from(_, _)
split_from(k, n) == IF 2 * k < n THEN split_from(2 * k, n) ELSE k
split_point(n) == split_from(1, n)
is_power_of_two(n) == split_point(n + 1) = n

Left(leaves) == SubSeq(leaves, 1, split_point(Len(leaves)))
Right(leaves) == SubSeq(leaves, split_point(Len(leaves)) + 1, Len(leaves))

RECURSIVE mth(_)
mth(leaves) == IF Len(leaves) = 1 THEN leaves[1] ELSE node_of(mth(Left(leaves)), mth(Right(leaves)))

RECURSIVE subproof(_, _, _)
subproof(m, leaves, complete) ==
  LET k == split_point(Len(leaves))
  IN  IF m = Len(leaves) THEN (IF complete THEN <<>> ELSE <<mth(leaves)>>)
      ELSE IF m <= k THEN Append(subproof(m, Left(leaves), complete), mth(Right(leaves)))
      ELSE Append(subproof(m - k, Right(leaves), FALSE), mth(Left(leaves)))

consistency(levels, old_count) ==
  LET leaves == levels[1]
      start == IF is_power_of_two(old_count) THEN <<mth(SubSeq(leaves, 1, old_count))>> ELSE <<>>
  IN  IF old_count = Len(leaves) THEN <<>> ELSE start \o subproof(old_count, leaves, TRUE)

\* Levels are dropped while the old tree's last node is a right child.
RECURSIVE SkipRight(_, _)
SkipRight(f, s) == IF f % 2 = 1 THEN SkipRight(Half(f), Half(s)) ELSE <<f, s>>

RECURSIVE SkipLeft(_, _)
SkipLeft(f, s) == IF f % 2 = 0 /\ f # 0 THEN SkipLeft(Half(f), Half(s)) ELSE <<f, s>>

\* The two accumulators after the path; done is false when it has the wrong length.
RECURSIVE Walk(_, _, _, _, _)
Walk(f, s, old, new, path) ==
  IF path = <<>> THEN [done |-> s = 0, old |-> old, new |-> new]
  ELSE IF s = 0 THEN [done |-> FALSE, old |-> old, new |-> new]
  ELSE IF f % 2 = 1 \/ f = s
  THEN LET at == SkipLeft(f, s)
       IN  Walk(Half(at[1]), Half(at[2]), node_of(Head(path), old), node_of(Head(path), new), Tail(path))
  ELSE Walk(Half(f), Half(s), old, node_of(new, Head(path)), Tail(path))

\* Faulty: only the new root is compared.
verify_consistency_new(old_count, old_root, new_count, new_root, path) ==
  IF old_count = 0 \/ old_count > new_count THEN FALSE
  ELSE IF old_count = new_count THEN path = <<>> /\ old_root = new_root
  ELSE IF path = <<>> THEN FALSE
  ELSE LET at == SkipRight(old_count - 1, new_count - 1)
           end == Walk(at[1], at[2], Head(path), Head(path), Tail(path))
       IN  end.done /\ root_of(new_count, end.new) = new_root

verify_consistency(old_count, old_root, new_count, new_root, path) ==
  IF old_count = 0 \/ old_count > new_count THEN FALSE
  ELSE IF old_count = new_count THEN path = <<>> /\ old_root = new_root
  ELSE IF path = <<>> THEN FALSE
  ELSE LET at == SkipRight(old_count - 1, new_count - 1)
           end == Walk(at[1], at[2], Head(path), Head(path), Tail(path))
       IN  /\ end.done
           /\ root_of(old_count, end.old) = old_root
           /\ root_of(new_count, end.new) = new_root

-------------------------------------------------------------------------------
(* A tree in use: built from leaves, grown, and changed in place. *)

VARIABLE levels     \* <<>> when there is no tree

TreeInit == \E c \in Contents : levels = build(<<Leaf(c)>>)

Grow(content) ==
  /\ LeafCount(levels) < MaxLeaves
  /\ levels' = build(Append(levels[1], Leaf(content)))

Update(index, content) == levels' = update_leaf(levels, index, Leaf(content))

TreeNext ==
  /\ levels # <<>>
  /\ \E c \in Contents : Grow(c) \/ \E i \in 0 .. LeafCount(levels) - 1 : Update(i, c)

-------------------------------------------------------------------------------
(* Properties. *)

Indices == 0 .. LeafCount(levels) - 1
Prefix(n) == build(SubSeq(levels[1], 1, n))

\* A tree changed leaf by leaf is the tree built from its leaves, with the apex
\* of RFC 6962, which splits from the top; and the path proof gives leads to
\* its root for its leaf, its position and this number of leaves, and for no
\* other position, number or leaf.
ProofsBindPosition ==
  levels # <<>> =>
    /\ levels = build(levels[1]) /\ Last(levels)[1] = mth(levels[1])
    /\ \A i \in Indices :
         \A j \in 0 .. MaxLeaves, n \in 1 .. MaxLeaves + 1, c \in Contents :
           verify_proof(RootOf(levels), j, n, Leaf(c), proof(levels, i))
             <=> /\ n = LeafCount(levels) /\ j \in Indices
                 /\ Leaf(c) = At(levels[1], j) /\ proof(levels, i) = proof(levels, j)

\* The path consistency gives shows every earlier size of the tree to be its
\* beginning, and shows it of no other tree of a size up to this one: not of
\* one that differs in a leaf, nor for another size.
ConsistencyBindsHistory ==
  levels # <<>> =>
    /\ \A m \in 1 .. LeafCount(levels) :
         verify_consistency(m, RootOf(Prefix(m)), LeafCount(levels), RootOf(levels),
                            consistency(levels, m))
    /\ \A m, n \in 1 .. LeafCount(levels) : \A i \in 0 .. n - 1, c \in Contents :
         LET other == [SubSeq(levels[1], 1, n) EXCEPT ![i + 1] = Leaf(c)]
         IN  verify_consistency(n, RootOf(build(other)), LeafCount(levels), RootOf(levels),
                                consistency(levels, m))
               => other = SubSeq(levels[1], 1, n)

\* Both kinds of path say what they say of one position, and of one beginning.
TreeProofsBind == ProofsBindPosition /\ ConsistencyBindsHistory

===============================================================================

---------------------------- MODULE ControlProofs ----------------------------
(* What TLAPS proves of AuthorityChain and Control. *)
EXTENDS ControlSystem, FiniteSetTheorems, SequenceTheorems, WellFoundedInduction, TLAPS

-------------------------------------------------------------------------------
(* Keys listed over a document. *)

\* Every set of numbers that is not empty has a least one.
LEMMA LeastNumber ==
  ASSUME NEW T \in SUBSET Nat, T # {}
  PROVE  \E n \in T : \A m \in T : n <= m
<1> DEFINE R == OpToRel(<, Nat)
<1>1. IsWellFoundedOn(R, Nat)  BY NatLessThanWellFounded
<1>2. \E x \in T : \A y \in T : ~(<<y, x>> \in R)
  <2> HIDE DEF R
  <2> QED BY <1>1, WFMin
<1>3. \A x, y \in Nat : y < x => <<y, x>> \in R  BY DEF OpToRel
<1> HIDE DEF R
<1>4. PICK x \in T : \A y \in T : ~(<<y, x>> \in R)  BY <1>2
<1>5. \A m \in T : x <= m
  <2> TAKE m \in T
  <2>1. ~(m < x)  BY <1>3, <1>4
  <2> QED BY <2>1
<1> QED BY <1>5

\* For proofs that need no other arithmetic.
LEMMA LessIsTransitive == \A x, y, z \in Nat : x < y /\ y < z => x < z
OBVIOUS

\* Keys that ascend from each place to the next (split_request) ascend throughout.
LEMMA AscendingKeys ==
  ASSUME NEW keys \in Seq(Nat), \A i \in 1 .. Len(keys) - 1 : keys[i] < keys[i + 1]
  PROVE  \A i, j \in 1 .. Len(keys) : i < j => keys[i] < keys[j]
<1> SUFFICES ASSUME NEW i \in 1 .. Len(keys),
                    \E j \in 1 .. Len(keys) : i < j /\ ~(keys[i] < keys[j])
             PROVE  FALSE
  OBVIOUS
<1> DEFINE T == {j \in 1 .. Len(keys) : i < j /\ ~(keys[i] < keys[j])}
<1>1. T \in SUBSET Nat /\ T # {}
  <2>1. PICK j \in 1 .. Len(keys) : i < j /\ ~(keys[i] < keys[j])  OBVIOUS
  <2>2. j \in T  BY <2>1
  <2>3. 1 .. Len(keys) \subseteq Nat  OBVIOUS
  <2> QED BY <2>2, <2>3
<1>2. PICK j \in T : \A m \in T : j <= m  BY <1>1, LeastNumber
<1>3. Len(keys) \in Nat /\ j \in 1 .. Len(keys) /\ i < j  BY <1>2
<1>4. j - 1 \in 1 .. Len(keys) - 1 /\ (j - 1) + 1 = j /\ j - 1 \in 1 .. Len(keys)
  BY <1>3
<1>5. keys[j - 1] < keys[j]  BY <1>4
<1>6. keys[i] \in Nat /\ keys[j] \in Nat /\ keys[j - 1] \in Nat
  <2>1. \A k \in 1 .. Len(keys) : keys[k] \in Nat  BY ElementOfSeq
  <2> QED BY <1>3, <1>4, <2>1
<1>7. CASE i = j - 1  BY <1>2, <1>5, <1>7
<1>8. CASE i < j - 1
  <2>1. j - 1 \notin T  BY <1>2, <1>3
  <2>2. keys[i] < keys[j - 1]  BY <2>1, <1>4, <1>8
  <2>3. ~(keys[i] < keys[j])  BY <1>2
  <2> QED BY <1>5, <1>6, <2>2, <2>3, LessIsTransitive, Zenon
<1> QED BY <1>3, <1>7, <1>8

\* Counting the places of keys that ascend counts signers: those of a roster
\* that are listed are no more than those of it that have signed.
LEMMA ListedAreSigners ==
  ASSUME NEW keys \in Seq(Nat), split_request(keys), NEW roster, IsFiniteSet(roster),
         NEW signers \in SUBSET roster,
         \A i \in DOMAIN keys : keys[i] \in roster => keys[i] \in signers
  PROVE  Cardinality({i \in DOMAIN keys : keys[i] \in roster}) <= Cardinality(signers)
<1> DEFINE P == {i \in DOMAIN keys : keys[i] \in roster}
           f == [i \in P |-> keys[i]]
<1>1. DOMAIN keys = 1 .. Len(keys) /\ Len(keys) \in Nat  OBVIOUS
<1>2. \A i, j \in 1 .. Len(keys) : i < j => keys[i] < keys[j]
  BY AscendingKeys DEF split_request
<1>3. \A i, j \in P : keys[i] = keys[j] => i = j
  <2> TAKE i, j \in P
  <2> HAVE keys[i] = keys[j]
  <2>1. i \in 1 .. Len(keys) /\ j \in 1 .. Len(keys) /\ keys[i] \in Nat /\ keys[j] \in Nat  BY <1>1
  <2>2. ~(keys[i] < keys[j]) /\ ~(keys[j] < keys[i])  BY <2>1
  <2>3. ~(i < j) /\ ~(j < i)  BY <1>2, <2>1, <2>2
  <2> QED BY <2>1, <2>3
<1>4. f \in Injection(P, signers)
  BY <1>3 DEF Injection, IsInjective
<1>5. IsFiniteSet(signers)  BY FS_Subset
<1> HIDE DEF P, f
<1>6. Cardinality(P) <= Cardinality(signers)  BY <1>4, <1>5, FS_Injection
<1> QED BY <1>6 DEF P

-------------------------------------------------------------------------------
(* Transfers of authority. *)

Words ==
  {"BadHeaderSignature", "NotAnchored", "Malformed", "Broken", "Expired", "NotAuthorized", "Ok"}

Calls ==
  [stage : {"idle", "walking", "done", "refused"}, first : Bindings \cup {None}, at : Int,
   binding : Bindings \cup {None}, transition_at : Int \cup {None},
   old_leases : {"Honour", "RejectAfterTransition", None}, previous_keys : Seq(Nat),
   why : Words \cup {None}]

ChainTypeOK ==
  /\ clock \in Nat
  /\ signed \in SUBSET (Bodies \X Nat)
  /\ client \in [Clients -> Calls]

\* The bindings a walk can be at.
Known == Firsts \cup {t.binding : t \in Bodies}

\* A controller has signed one certificate of an epoch.
OneVote ==
  \A s, q \in signed : s[2] = q[2] /\ s[1].from_epoch = q[1].from_epoch => s[1] = q[1]

\* A quorum of b has signed b's authority over with t.
Certified(b, t) ==
  /\ t.from_epoch = b.epoch /\ t.binding.epoch = b.epoch + 1
  /\ t.from_lease = b.lease_public
  /\ b.threshold >= 1 /\ Quorum(b, t)

\* What a client in a call holds.
CallOK(call) ==
  LET keys == call.previous_keys
  IN  /\ call.first \in Firsts /\ call.first.lease_public = Anchor
      /\ call.binding \in Known
      /\ Len(keys) = call.binding.epoch - call.first.epoch
      /\ call.binding.authority_id = call.first.authority_id
      /\ keys = <<>> => call.binding = call.first
      /\ keys # <<>> =>
           /\ keys[1] = Anchor
           /\ \E b \in Known, t \in Bodies :
                t.binding = call.binding /\ Certified(b, t) /\ t.from_lease = keys[Len(keys)]

AllMajority(f) == Majority(f) /\ \A t \in Bodies : Majority(t.binding)

\* steps are the pairs of a first binding and one that a client has come to from
\* it: each by a certificate, and under majorities one in an epoch.
Walked(steps) ==
  /\ \A p \in steps :
       /\ p[1] \in Firsts /\ p[2] \in Known
       /\ p[2] = p[1] \/ (/\ p[2].epoch > p[1].epoch
                         /\ \E q \in steps, t \in Bodies :
                              q[1] = p[1] /\ t.binding = p[2] /\ Certified(q[2], t))
  /\ \A p, q \in steps :
       (p[1] = q[1] /\ p[2].epoch = q[2].epoch /\ AllMajority(p[1])) => p[2] = q[2]
  /\ \A c \in Clients : Trusting(c) => <<client[c].first, client[c].binding>> \in steps

ChainInv ==
  /\ ChainTypeOK
  /\ OneVote
  /\ \A c \in Clients : Trusting(c) => CallOK(client[c])
  /\ \E steps \in SUBSET (Firsts \X Known) : Walked(steps)

\* A binding a walk can be at has its type and a finite roster.
LEMMA KnownBinding ==
  ASSUME NEW b \in Known
  PROVE  /\ b \in Bindings /\ IsFiniteSet(b.roster)
         /\ b.epoch \in Nat /\ b.lease_public \in Nat /\ b.threshold \in Nat
BY AuthorityAssumption, DocumentsAssumption DEF Known, Bindings, Transfers

LEMMA NoCallType == NoCall \in Calls /\ NoCall.stage = "idle" /\ NoCall.previous_keys = <<>>
BY DEF NoCall, Calls

\* More signatures leave a quorum a quorum.
LEMMA CertifiedGrows ==
  ASSUME NEW b \in Known, NEW t, Certified(b, t), signed \subseteq signed'
  PROVE  Certified(b, t)'
<1> DEFINE A == {key \in b.roster : <<t, key>> \in signed}
           B == {key \in b.roster : <<t, key>> \in signed'}
<1>1. IsFiniteSet(b.roster) /\ b.threshold \in Nat  BY KnownBinding
<1>2. IsFiniteSet(B) /\ A \subseteq B  BY <1>1, FS_Subset
<1>3. Cardinality(A) <= Cardinality(B) /\ Cardinality(A) \in Nat /\ Cardinality(B) \in Nat
  BY <1>2, FS_Subset, FS_CardinalityType
<1>4. Cardinality(A) >= b.threshold  BY DEF Certified, Quorum
<1>5. Cardinality(B) >= b.threshold  BY <1>1, <1>3, <1>4
<1> QED BY <1>5 DEF Certified, Quorum

\* Under a majority no two successors are certified in one epoch.
LEMMA OneSuccessor ==
  ASSUME NEW b \in Known, NEW t, NEW u, OneVote, Majority(b), Certified(b, t), Certified(b, u)
  PROVE  t = u
<1> DEFINE A == {key \in b.roster : <<t, key>> \in signed}
           B == {key \in b.roster : <<u, key>> \in signed}
<1>1. IsFiniteSet(b.roster) /\ b.threshold \in Nat  BY KnownBinding
<1>2. Cardinality(A) >= b.threshold /\ Cardinality(B) >= b.threshold  BY DEF Certified, Quorum
<1>3. Cardinality(A) \in Nat /\ Cardinality(B) \in Nat /\ Cardinality(b.roster) \in Nat
      /\ A \subseteq b.roster /\ B \subseteq b.roster
  BY <1>1, FS_Subset, FS_CardinalityType
<1>4. Cardinality(A) + Cardinality(B) > Cardinality(b.roster)
  BY <1>1, <1>2, <1>3 DEF Majority
<1>5. A \cap B # {}
  <2> HIDE DEF A, B
  <2> QED BY <1>1, <1>3, <1>4, FS_MajoritiesIntersect
<1>6. PICK key : <<t, key>> \in signed /\ <<u, key>> \in signed  BY <1>5
<1> QED BY <1>6 DEF OneVote, Certified

\* What verify_chain has checked of a certificate it takes.
LEMMA TransferChecks ==
  ASSUME NEW b \in Known, NEW at, NEW t \in Bodies, NEW keys \in KeyLists,
         TransferRefusal(b, at, t, keys) = "Ok"
  PROVE  Certified(b, t) /\ t.binding.authority_id = b.authority_id /\ t.binding \in Known
<1>1. /\ open_transfer(t, keys) /\ t.authority_id = b.authority_id /\ t.from_epoch = b.epoch
      /\ t.from_lease = b.lease_public /\ ~NotAuthorized(b, keys)
      /\ t.binding.epoch = t.to_epoch /\ t.binding.authority_id = t.authority_id
  BY DEF TransferRefusal
<1>2. split_request(keys) /\ (\A i \in DOMAIN keys : <<t, keys[i]>> \in signed)
      /\ t.to_epoch = t.from_epoch + 1
  BY <1>1 DEF open_transfer, transfer_body
<1>3. IsFiniteSet(b.roster) /\ b.threshold \in Nat /\ keys \in Seq(Nat)
  BY KnownBinding, DocumentsAssumption
<1> DEFINE A == {key \in b.roster : <<t, key>> \in signed}
<1>4. have(b, keys) <= Cardinality(A)
  <2>1. A \in SUBSET b.roster /\ \A i \in DOMAIN keys : keys[i] \in b.roster => keys[i] \in A
    BY <1>2
  <2> HIDE DEF A
  <2> QED BY <2>1, <1>2, <1>3, ListedAreSigners DEF have
<1>5. b.threshold >= 1 /\ have(b, keys) >= b.threshold /\ have(b, keys) \in Nat
  <2>1. DOMAIN keys = 1 .. Len(keys) /\ Len(keys) \in Nat  BY <1>3
  <2>2. IsFiniteSet(DOMAIN keys)  BY <2>1, FS_Interval
  <2>3. have(b, keys) \in Nat  BY <2>2, FS_Subset, FS_CardinalityType DEF have
  <2> QED BY <1>1, <1>3, <2>3 DEF NotAuthorized
<1>6. Cardinality(A) \in Nat  BY <1>3, FS_Subset, FS_CardinalityType
<1>7. Quorum(b, t)  BY <1>3, <1>4, <1>5, <1>6 DEF Quorum
<1> QED BY <1>1, <1>2, <1>5, <1>7 DEF Certified, Known

\* What the clients hold stays as it is while signatures are added.
LEMMA SignPreserves ==
  ASSUME ChainInv, NEW t \in Bodies, NEW key \in Controllers, Sign(t, key)
  PROVE  ChainInv'
<1>1. signed' = signed \cup {<<t, key>>} /\ clock' = clock /\ client' = client
  BY DEF Sign
<1>2. ChainTypeOK'  BY <1>1, AuthorityAssumption DEF ChainInv, ChainTypeOK
<1>3. OneVote'
  <2>1. \A s \in signed : s[2] = key => s[1].from_epoch # t.from_epoch  BY DEF Sign
  <2>2. <<t, key>>[1] = t /\ <<t, key>>[2] = key  OBVIOUS
  <2> QED BY <1>1, <2>1, <2>2 DEF ChainInv, OneVote
<1>4. \A c \in Clients : Trusting(c)' => CallOK(client[c])'
  <2> SUFFICES ASSUME NEW c \in Clients, Trusting(c)' PROVE CallOK(client[c])'  OBVIOUS
  <2>1. CallOK(client[c])  BY <1>1 DEF ChainInv, Trusting
  <2>2. \A b \in Known, u \in Bodies : Certified(b, u) => Certified(b, u)'
    BY <1>1, CertifiedGrows
  <2> HIDE DEF Certified
  <2> QED BY <1>1, <2>1, <2>2 DEF CallOK
<1>5. \E steps \in SUBSET (Firsts \X Known) : Walked(steps)'
  <2>1. PICK steps \in SUBSET (Firsts \X Known) : Walked(steps)  BY DEF ChainInv
  <2>2. \A p \in steps, u \in Bodies : Certified(p[2], u) => Certified(p[2], u)'
    BY <1>1, CertifiedGrows
  <2> QED BY <1>1, <2>1, <2>2 DEF Walked, Trusting
<1> QED BY <1>2, <1>3, <1>4, <1>5 DEF ChainInv

\* A step that ends calls, or changes nothing about the walks.
LEMMA QuietPreserves ==
  ASSUME ChainInv, clock' \in Nat, signed' = signed, client' \in [Clients -> Calls],
         \A c \in Clients : Trusting(c)' =>
           /\ Trusting(c) /\ client'[c].first = client[c].first
           /\ client'[c].binding = client[c].binding
           /\ client'[c].previous_keys = client[c].previous_keys
  PROVE  ChainInv'
<1>1. ChainTypeOK'  BY DEF ChainInv, ChainTypeOK
<1>2. OneVote'  BY DEF ChainInv, OneVote
<1>3. \A b, t : Certified(b, t)' = Certified(b, t)  BY DEF Certified, Quorum
<1>4. \A c \in Clients : Trusting(c)' => CallOK(client[c])'
  <2> SUFFICES ASSUME NEW c \in Clients, Trusting(c)' PROVE CallOK(client[c])'  OBVIOUS
  <2>1. CallOK(client[c])  BY DEF ChainInv
  <2> QED BY <1>3, <2>1 DEF CallOK
<1>5. \E steps \in SUBSET (Firsts \X Known) : Walked(steps)'
  <2>1. PICK steps \in SUBSET (Firsts \X Known) : Walked(steps)  BY DEF ChainInv
  <2> QED BY <1>3, <2>1 DEF Walked
<1> QED BY <1>1, <1>2, <1>4, <1>5 DEF ChainInv

LEMMA BeginPreserves ==
  ASSUME ChainInv, NEW c \in Clients, NEW b \in Firsts, Begin(c, b)
  PROVE  ChainInv'
<1> DEFINE N == [NoCall EXCEPT !.stage = "walking", !.first = b, !.at = clock, !.binding = b]
<1>1. client' = [client EXCEPT ![c] = N] /\ clock' = clock /\ signed' = signed
      /\ FirstRefusal(b) = "Ok"
  BY DEF Begin
<1>2. b \in Bindings /\ b \in Known /\ b.lease_public = Anchor
  BY <1>1, AuthorityAssumption DEF Known, FirstRefusal, open
<1>3. N.stage = "walking" /\ N.first = b /\ N.binding = b /\ N.previous_keys = <<>> /\ N \in Calls
  <2>1. clock \in Int  BY DEF ChainInv, ChainTypeOK
  <2>2. N \in Calls  BY <1>2, <2>1, NoCallType DEF Calls
  <2>3. N.stage = "walking" /\ N.first = b /\ N.binding = b  BY NoCallType DEF Calls
  <2>4. N.previous_keys = NoCall.previous_keys  BY NoCallType DEF Calls
  <2> QED BY <2>2, <2>3, <2>4, NoCallType
<1>4. /\ client' \in [Clients -> Calls] /\ client'[c] = N
      /\ \A d \in Clients : d # c => client'[d] = client[d]
  BY <1>1, <1>3 DEF ChainInv, ChainTypeOK
<1> HIDE DEF N
<1>5. ChainTypeOK'  BY <1>1, <1>4 DEF ChainInv, ChainTypeOK
<1>6. OneVote'  BY <1>1 DEF ChainInv, OneVote
<1>7. \A u, t : Certified(u, t)' = Certified(u, t)  BY <1>1 DEF Certified, Quorum
<1>8. \A d \in Clients : Trusting(d)' => CallOK(client[d])'
  <2> SUFFICES ASSUME NEW d \in Clients, Trusting(d)' PROVE CallOK(client[d])'  OBVIOUS
  <2>1. CASE d = c
    <3>1. b.epoch \in Nat  BY <1>2, KnownBinding
    <3> QED BY <2>1, <3>1, <1>2, <1>3, <1>4 DEF CallOK
  <2>2. CASE d # c
    <3>1. CallOK(client[d])  BY <2>2, <1>4 DEF ChainInv, Trusting
    <3> QED BY <2>2, <3>1, <1>4, <1>7 DEF CallOK
  <2> QED BY <2>1, <2>2
<1>9. \E steps \in SUBSET (Firsts \X Known) : Walked(steps)'
  <2>1. PICK old \in SUBSET (Firsts \X Known) : Walked(old)  BY DEF ChainInv
  <2> DEFINE steps == old \cup {<<b, b>>}
  <2>2. <<b, b>>[1] = b /\ <<b, b>>[2] = b  OBVIOUS
  <2>3. steps \in SUBSET (Firsts \X Known)  BY <1>2
  <2>4. \A p \in steps :
          /\ p[1] \in Firsts /\ p[2] \in Known
          /\ p[2] = p[1] \/ (/\ p[2].epoch > p[1].epoch
                            /\ \E q \in steps, t \in Bodies :
                                 q[1] = p[1] /\ t.binding = p[2] /\ Certified(q[2], t))
    BY <1>2, <2>1, <2>2 DEF Walked
  <2>5. \A p \in old : p[1] = b /\ p[2].epoch = b.epoch => p[2] = b
    <3> TAKE p \in old
    <3> HAVE p[1] = b /\ p[2].epoch = b.epoch
    <3>1. b.epoch \in Nat  BY <1>2, KnownBinding
    <3> QED BY <2>1, <3>1 DEF Walked
  <2>6. \A p, q \in steps :
          (p[1] = q[1] /\ p[2].epoch = q[2].epoch /\ AllMajority(p[1])) => p[2] = q[2]
    BY <2>1, <2>2, <2>5 DEF Walked
  <2>7. \A d \in Clients : Trusting(d)' => <<client'[d].first, client'[d].binding>> \in steps
    BY <1>3, <1>4, <2>1 DEF Walked, Trusting
  <2> HIDE DEF steps
  <2>8. Walked(steps)'  BY <1>7, <2>4, <2>6, <2>7 DEF Walked
  <2> QED BY <2>3, <2>8
<1> QED BY <1>5, <1>6, <1>8, <1>9 DEF ChainInv

\* A client goes on from its binding to the one certificate that a majority of
\* its roster has signed, so that it meets whoever went on from there before.
LEMMA TakeTransferPreserves ==
  ASSUME ChainInv, NEW c \in Clients, NEW t \in Bodies, NEW keys \in KeyLists,
         TakeTransfer(c, t, keys)
  PROVE  ChainInv'
<1> DEFINE b == client[c].binding
           f == client[c].first
           k == client[c].previous_keys
           N == Taken(client[c], t)
<1>1. client' = [client EXCEPT ![c] = N] /\ clock' = clock /\ signed' = signed
      /\ client[c].stage = "walking" /\ TransferRefusal(b, client[c].at, t, keys) = "Ok"
  BY DEF TakeTransfer
<1>2. Trusting(c) /\ CallOK(client[c]) /\ client[c] \in Calls
  BY <1>1 DEF ChainInv, Trusting, ChainTypeOK
<1>3. b \in Known /\ f \in Firsts /\ f \in Known /\ k \in Seq(Nat)
  BY <1>2 DEF CallOK, Calls, Known
<1>4. Certified(b, t) /\ t.binding.authority_id = b.authority_id /\ t.binding \in Known
  BY <1>1, <1>3, TransferChecks
<1>5. /\ b.epoch \in Nat /\ f.epoch \in Nat /\ b.lease_public \in Nat
      /\ t.binding.epoch = b.epoch + 1 /\ t.from_lease = b.lease_public
  BY <1>3, <1>4, KnownBinding DEF Certified
<1>6. /\ N.stage = "walking" /\ N.first = f /\ N.binding = t.binding
      /\ N.previous_keys = Append(k, b.lease_public) /\ N \in Calls
  <2>1. t.binding \in Bindings /\ t.transition_at \in Int
        /\ t.old_leases \in {"Honour", "RejectAfterTransition"}
    BY AuthorityAssumption DEF Transfers
  <2>2. Append(k, b.lease_public) \in Seq(Nat)  BY <1>3, <1>5
  <2> QED BY <1>1, <1>2, <2>1, <2>2 DEF Taken, Calls
<1>7. /\ client' \in [Clients -> Calls] /\ client'[c] = N
      /\ \A d \in Clients : d # c => client'[d] = client[d]
  BY <1>1, <1>6 DEF ChainInv, ChainTypeOK
<1> HIDE DEF N
<1>8. ChainTypeOK'  BY <1>1, <1>7 DEF ChainInv, ChainTypeOK
<1>9. OneVote'  BY <1>1 DEF ChainInv, OneVote
<1>10. \A u, v : Certified(u, v)' = Certified(u, v)  BY <1>1 DEF Certified, Quorum
<1>11. CallOK(N)
  <2> DEFINE ks == Append(k, b.lease_public)
  <2>1. /\ Len(k) = b.epoch - f.epoch /\ b.authority_id = f.authority_id /\ f.lease_public = Anchor
        /\ k = <<>> => b = f
        /\ k # <<>> => k[1] = Anchor
    BY <1>2 DEF CallOK
  <2>2. Len(ks) = Len(k) + 1 /\ ks # <<>> /\ ks[Len(ks)] = b.lease_public /\ Len(k) \in Nat
    BY <1>3, <1>5
  <2>3. ks[1] = Anchor
    <3>1. CASE k = <<>>  BY <3>1, <2>1
    <3>2. CASE k # <<>>
      <4>1. ks[1] = k[1]  BY <3>2, <1>3
      <4> QED BY <4>1, <3>2, <2>1
    <3> QED BY <3>1, <3>2
  <2> HIDE DEF ks
  <2>4. N.previous_keys = ks  BY <1>6 DEF ks
  <2>5. \E u \in Known, v \in Bodies :
          v.binding = N.binding /\ Certified(u, v) /\ v.from_lease = ks[Len(ks)]
    BY <1>3, <1>4, <1>5, <1>6, <2>2
  <2>6. Len(ks) = N.binding.epoch - N.first.epoch
    <3>1. N.binding.epoch = b.epoch + 1 /\ N.first.epoch = f.epoch  BY <1>5, <1>6
    <3>2. Len(ks) = (b.epoch - f.epoch) + 1  BY <2>1, <2>2
    <3> QED BY <1>5, <3>1, <3>2
  <2> HIDE DEF b, f, k
  <2> QED BY <1>3, <1>4, <1>6, <2>1, <2>2, <2>3, <2>4, <2>5, <2>6 DEF CallOK
<1>12. \A d \in Clients : Trusting(d)' => CallOK(client[d])'
  <2> SUFFICES ASSUME NEW d \in Clients, Trusting(d)' PROVE CallOK(client[d])'  OBVIOUS
  <2>1. CallOK(client'[d])
    BY <1>7, <1>11 DEF ChainInv, Trusting
  <2> QED BY <2>1, <1>10 DEF CallOK
<1>13. \E steps \in SUBSET (Firsts \X Known) : Walked(steps)'
  <2>1. PICK old \in SUBSET (Firsts \X Known) : Walked(old)  BY DEF ChainInv
  <2>0. PICK n \in Firsts \X Known : n = <<f, t.binding>>  BY <1>3, <1>4
  <2> DEFINE steps == old \cup {n}
  <2>2. n[1] = f /\ n[2] = t.binding /\ <<f, b>>[1] = f /\ <<f, b>>[2] = b  BY <2>0
  <2>3. steps \in SUBSET (Firsts \X Known)  OBVIOUS
  <2>4. <<f, b>> \in old  BY <1>2, <2>1 DEF Walked
  <2>5. b.epoch >= f.epoch  BY <1>5, <2>1, <2>2, <2>4 DEF Walked
  <2>6. \A p \in old : p[1] = f /\ p[2].epoch = t.binding.epoch /\ AllMajority(f) => p[2] = t.binding
    <3> SUFFICES ASSUME NEW p \in old, p[1] = f, p[2].epoch = b.epoch + 1, AllMajority(f)
                 PROVE  p[2] = t.binding
      BY <1>5
    <3>1. p[2] # p[1]  BY <1>5, <2>5
    <3>2. PICK q \in old, u \in Bodies : q[1] = f /\ u.binding = p[2] /\ Certified(q[2], u)
      BY <3>1, <2>1 DEF Walked
    <3>3. q[2].epoch = b.epoch
      <4>1. q[2] \in Known  BY <2>1 DEF Walked
      <4>2. q[2].epoch \in Nat /\ p[2].epoch = q[2].epoch + 1
        BY <3>2, <4>1, KnownBinding DEF Certified
      <4> QED BY <4>2, <1>5
    <3>4. q[2] = b  BY <3>2, <3>3, <2>1, <2>2, <2>4 DEF Walked
    <3>5. Majority(b)  BY <1>2 DEF AllMajority, CallOK, Known
    <3>6. u = t  BY <1>3, <1>4, <3>2, <3>4, <3>5, OneSuccessor DEF ChainInv
    <3> QED BY <3>2, <3>6
  <2>7. \A p \in steps :
          /\ p[1] \in Firsts /\ p[2] \in Known
          /\ p[2] = p[1] \/ (/\ p[2].epoch > p[1].epoch
                            /\ \E q \in steps, u \in Bodies :
                                 q[1] = p[1] /\ u.binding = p[2] /\ Certified(q[2], u))
    <3> TAKE p \in steps
    <3>1. CASE p \in old  BY <3>1, <2>1 DEF Walked
    <3>2. CASE p = n
      <4>1. t.binding.epoch > f.epoch  BY <1>5, <2>5
      <4>2. <<f, b>> \in steps  BY <2>4
      <4> HIDE DEF steps
      <4> QED BY <3>2, <1>3, <1>4, <2>2, <4>1, <4>2
    <3> QED BY <3>1, <3>2
  <2>8. \A p, q \in steps :
          (p[1] = q[1] /\ p[2].epoch = q[2].epoch /\ AllMajority(p[1])) => p[2] = q[2]
    BY <2>1, <2>2, <2>6 DEF Walked
  <2>9. \A d \in Clients : Trusting(d)' => <<client'[d].first, client'[d].binding>> \in steps
    BY <1>6, <1>7, <2>0, <2>1 DEF Walked, Trusting
  <2> HIDE DEF steps
  <2>10. Walked(steps)'  BY <1>10, <2>7, <2>8, <2>9 DEF Walked
  <2> QED BY <2>3, <2>10
<1> QED BY <1>8, <1>9, <1>12, <1>13 DEF ChainInv

\* Why verify_chain refuses is a word.
LEMMA RefusalWords ==
  ASSUME NEW b, NEW at, NEW t, NEW keys
  PROVE  TransferRefusal(b, at, t, keys) \in Words /\ FirstRefusal(b) \in Words
BY DEF TransferRefusal, FirstRefusal, open, Words

LEMMA RefusedPreserves ==
  ASSUME ChainInv, NEW c \in Clients, NEW why \in Words, client' = Refused(c, why),
         UNCHANGED <<clock, signed>>
  PROVE  ChainInv'
<1> DEFINE N == [NoCall EXCEPT !.stage = "refused", !.why = why]
<1>1. N \in Calls /\ N.stage = "refused"  BY NoCallType DEF Calls
<1>2. client' = [client EXCEPT ![c] = N]  BY DEF Refused
<1> HIDE DEF N
<1>3. /\ client' \in [Clients -> Calls] /\ client'[c] = N
      /\ \A d \in Clients : d # c => client'[d] = client[d]
  BY <1>1, <1>2 DEF ChainInv, ChainTypeOK
<1>4. clock' \in Nat /\ signed' = signed  BY DEF ChainInv, ChainTypeOK
<1>5. \A d \in Clients : Trusting(d)' => Trusting(d) /\ client'[d] = client[d]
  BY <1>1, <1>3 DEF Trusting
<1> QED BY <1>3, <1>4, <1>5, QuietPreserves

LEMMA ReturnPreserves ==
  ASSUME ChainInv, NEW c \in Clients, Return(c)
  PROVE  ChainInv'
<1>1. client' = [client EXCEPT ![c].stage = "done"] /\ clock' \in Nat /\ signed' = signed
      /\ client[c].stage = "walking"
  BY DEF Return, ChainInv, ChainTypeOK
<1>2. client[c] \in Calls /\ [client[c] EXCEPT !.stage = "done"] \in Calls
  BY DEF ChainInv, ChainTypeOK, Calls
<1>3. client' \in [Clients -> Calls] /\ client'[c] = [client[c] EXCEPT !.stage = "done"]
      /\ \A d \in Clients : d # c => client'[d] = client[d]
  BY <1>1, <1>2 DEF ChainInv, ChainTypeOK
<1>4. /\ client'[c].first = client[c].first /\ client'[c].binding = client[c].binding
      /\ client'[c].previous_keys = client[c].previous_keys
  BY <1>2, <1>3 DEF Calls
<1>5. Trusting(c)  BY <1>1 DEF Trusting
<1>6. \A d \in Clients : Trusting(d)' =>
        /\ Trusting(d) /\ client'[d].first = client[d].first
        /\ client'[d].binding = client[d].binding
        /\ client'[d].previous_keys = client[d].previous_keys
  BY <1>3, <1>4, <1>5 DEF Trusting
<1> QED BY <1>1, <1>3, <1>6, QuietPreserves

LEMMA ChainInitEstablishes == ChainInit => ChainInv
<1> SUFFICES ASSUME ChainInit PROVE ChainInv  OBVIOUS
<1>2. ChainTypeOK /\ \A c \in Clients : ~Trusting(c)
  BY NoCallType DEF ChainInit, ChainTypeOK, Trusting
<1>3. OneVote  BY DEF ChainInit, OneVote
<1>4. Walked({})  BY <1>2 DEF Walked
<1> QED BY <1>2, <1>3, <1>4 DEF ChainInv

LEMMA ChainStep ==
  ASSUME ChainInv, ChainNext
  PROVE  ChainInv'
<1>1. ASSUME NEW t \in Bodies, NEW key \in Controllers, Sign(t, key) PROVE ChainInv'
  BY <1>1, SignPreserves
<1>2. ASSUME NEW c \in Clients, NEW b \in Firsts, Begin(c, b) PROVE ChainInv'
  BY <1>2, BeginPreserves
<1>3. ASSUME NEW c \in Clients, NEW b \in Firsts, RefuseFirst(c, b) PROVE ChainInv'
  BY <1>3, RefusedPreserves, RefusalWords DEF RefuseFirst
<1>4. ASSUME NEW c \in Clients, NEW t \in Bodies, NEW keys \in KeyLists, TakeTransfer(c, t, keys)
      PROVE  ChainInv'
  BY <1>4, TakeTransferPreserves
<1>5. ASSUME NEW c \in Clients, NEW t \in Bodies, NEW keys \in KeyLists, RefuseTransfer(c, t, keys)
      PROVE  ChainInv'
  BY <1>5, RefusedPreserves, RefusalWords DEF RefuseTransfer
<1>6. ASSUME NEW c \in Clients, Return(c) PROVE ChainInv'  BY <1>6, ReturnPreserves
<1>7. CASE ClockTick
  <2>1. clock' \in Nat /\ signed' = signed /\ client' = client
    BY <1>7 DEF ClockTick, ChainInv, ChainTypeOK
  <2>2. client' \in [Clients -> Calls]  BY <2>1 DEF ChainInv, ChainTypeOK
  <2>3. \A c \in Clients : Trusting(c)' => Trusting(c)  BY <2>1 DEF Trusting
  <2> QED BY <2>1, <2>2, <2>3, QuietPreserves
<1> QED BY <1>1, <1>2, <1>3, <1>4, <1>5, <1>6, <1>7 DEF ChainNext

LEMMA ChainStutter ==
  ASSUME ChainInv, UNCHANGED chainvars
  PROVE  ChainInv'
<1>1. clock' = clock /\ signed' = signed /\ client' = client  BY DEF chainvars
<1>2. clock' \in Nat /\ client' \in [Clients -> Calls]  BY <1>1 DEF ChainInv, ChainTypeOK
<1>3. \A c \in Clients : Trusting(c)' => Trusting(c)  BY <1>1 DEF Trusting
<1> QED BY <1>1, <1>2, <1>3, QuietPreserves

-------------------------------------------------------------------------------
(* A server under control. *)

First == CHOOSE b \in Created : b.id = 1

\* Bindings are numbered as they are written.
DocsOK ==
  /\ docs \in SUBSET SignedBindings /\ IsFiniteSet(docs) /\ Created \subseteq docs
  /\ \A b \in docs : b.id \in 1 .. Cardinality(docs) /\ IsFiniteSet(b.roster)
  /\ \A a, b \in docs : a.id = b.id => a = b

\* b is the revision after a.
Follows(a, b) ==
  /\ b.previous = a.id /\ b.revision = a.revision + 1 /\ b.line = a.line \cup {b.id}

\* The line of a binding is the chain of revisions that led to it.
LinesOK ==
  /\ \A b \in docs :
       /\ b.id \in b.line /\ b.line \subseteq {a.id : a \in docs}
       /\ b.revision > 0 => \E a \in docs : Follows(a, b)
  /\ \A a, b \in docs : a.id \in b.line =>
       /\ SameScope(a, b) /\ a.line \subseteq b.line
       /\ a.revision <= b.revision /\ (a.revision = b.revision => a = b)
  /\ \A a, c, b \in docs :
       (a.id \in b.line /\ c.id \in b.line /\ a.revision <= c.revision) => a.id \in c.line

\* The receipts kept are those of the last operations, in their order.
Remembered ==
  \A a, b \in docs :
    (a.id \in b.line /\ a.revision > 0 /\ b.revision < a.revision + MaxReceipts) =>
      LET i == Len(b.kept) - (b.revision - a.revision)
      IN  i \in 1 .. Len(b.kept) /\ b.kept[i].operation_id = a.operation_id

Ids == {b.id : b \in docs}

ServersOK ==
  /\ servers \in [Names -> [binding : docs \cup {Nothing}, acked : Nat]]
  /\ Running("service")
  /\ \A s \in Names : Running(s) =>
       /\ servers[s].binding \in docs /\ SameScope(servers[s].binding, First)
       /\ servers[s].acked \in acks \cup {Zero}

\* With one server at work there is one history in every scope, and the server
\* is at the end of its own.
OneWriter ==
  ~Running("copy") =>
    /\ \A a, b \in docs : SameScope(a, b) => a.id \in b.line \/ b.id \in a.line
    /\ \A a \in docs : SameScope(a, First) => a.id \in servers["service"].binding.line

\* What the replica names is a state of this server.
ReplicaOK ==
  /\ replica \in [stored : Nat, cursor : Nat, taking : Nat]
  /\ replica.stored \in Ids \cup {Zero} /\ replica.cursor \in Ids \cup {Zero}
  /\ replica.taking \in {Zero, replica.stored}
  /\ acks \subseteq Ids /\ full \subseteq Ids /\ bootstrapped \in BOOLEAN
  /\ \A b \in docs : b.id \in {replica.stored, replica.cursor} => SameScope(b, First)

\* Each state acknowledged is behind the cursor, and the cursor behind the
\* state that is stored.
Behind ==
  (~bootstrapped \/ ~Running("copy")) =>
    /\ replica.cursor = Zero => acks = {}
    /\ replica.stored = Zero => replica.cursor = Zero
    /\ \A b \in docs : b.id = replica.cursor => acks \subseteq b.line
    /\ \A b \in docs : b.id = replica.stored => replica.cursor \in b.line \cup {Zero}

\* A receipt of success under "Witnessed" is for a revision that an
\* acknowledged state continues.
ReceiptsOK ==
  \A r \in receipts : r.outcome = "Committed" /\ r.durability = "Witnessed" =>
    \E h, b \in docs :
      h.id \in acks /\ b.id \in h.line /\ r.commit = b.id /\ r.revision = b.revision

\* The client holds the latest of what it has taken.
ClientOK ==
  /\ accepted \subseteq docs
  /\ seen = Nothing => accepted = {}
  /\ seen # Nothing => seen \in accepted /\ \A a \in accepted : a.revision <= seen.revision

ControlInv ==
  /\ DocsOK /\ LinesOK /\ Remembered /\ ChangedByQuorum
  /\ ServersOK /\ OneWriter
  /\ ReplicaOK /\ Behind /\ ReceiptsOK
  /\ ClientOK /\ OneBranch

ControlSystemInv ==
  /\ ChainInv
  /\ IF part = "transfers" THEN AtRest ELSE ControlInv

\* The binding in service at first.
LEMMA FirstCreated == First \in Created /\ First.id = 1 /\ First.revision = 0
<1>1. Cardinality(Created) \in Nat /\ Cardinality(Created) # 0
  BY ControlAssumption, FS_CardinalityType, FS_EmptySet
<1>2. 1 \in {b.id : b \in Created}  BY <1>1, ControlAssumption
<1>3. \E b \in Created : b.id = 1  BY <1>2
<1> QED BY <1>3, ControlAssumption DEF First

\* Doc finds the binding of a number.
LEMMA DocIs ==
  ASSUME DocsOK, NEW b \in docs
  PROVE  Doc(b.id) = b
BY DEF DocsOK, Doc

LEMMA DocOne ==
  ASSUME DocsOK
  PROVE  First \in docs /\ Doc(1) = First
BY FirstCreated, DocIs DEF DocsOK

\* The fields of a binding have their types.
LEMMA DocFields ==
  ASSUME DocsOK, NEW b \in docs
  PROVE  /\ b \in SignedBindings /\ b.id \in Nat /\ b.id # 0 /\ b.revision \in Nat
         /\ b # Nothing /\ IsFiniteSet(b.roster) /\ b.threshold \in Nat /\ b.kept \in Seq(Requests)
<1>1. b \in SignedBindings /\ b.id \in 1 .. Cardinality(docs) /\ IsFiniteSet(b.roster)
  BY DEF DocsOK
<1>2. b.id \in Nat /\ b.id # 0 /\ b.revision \in Nat /\ b.threshold \in Nat /\ b.kept \in Seq(Requests)
  BY <1>1 DEF SignedBindings
<1>3. Nothing.id = 0  BY ControlAssumption DEF Nothing
<1> QED BY <1>1, <1>2, <1>3

\* An intent changes what it is about, and leaves the history alone.
LEMMA OrderedFields ==
  ASSUME NEW b \in SignedBindings, IsFiniteSet(b.roster), NEW p \in Payloads
  PROVE  /\ Ordered(b, p) \in SignedBindings /\ IsFiniteSet(Ordered(b, p).roster)
         /\ Ordered(b, p).authority_id = b.authority_id /\ Ordered(b, p).epoch = b.epoch
         /\ Ordered(b, p).kept = b.kept
<1>1. CASE p.kind = "SetDurability"
  <2>1. Ordered(b, p) = [b EXCEPT !.durability = p.durability]  BY <1>1 DEF Ordered
  <2>2. p.durability \in STRING  BY DEF Payloads
  <2> QED BY <2>1, <2>2 DEF SignedBindings
<1>2. CASE p.kind = "SetRoster"
  <2> DEFINE K == {p.keys[i] : i \in DOMAIN p.keys}
  <2>1. Ordered(b, p) = [b EXCEPT !.roster = K, !.threshold = p.threshold]  BY <1>2 DEF Ordered
  <2>2. p.keys \in Seq(Nat) /\ p.threshold \in Nat  BY DEF Payloads
  <2>3. K \in SUBSET Nat  BY <2>2
  <2>4. IsFiniteSet(K)
    <3>1. DOMAIN p.keys = 1 .. Len(p.keys) /\ Len(p.keys) \in Nat  BY <2>2
    <3>2. IsFiniteSet(DOMAIN p.keys)  BY <3>1, FS_Interval
    <3> DEFINE f == [i \in DOMAIN p.keys |-> p.keys[i]]
    <3>3. f \in Surjection(DOMAIN p.keys, K)  BY DEF Surjection
    <3> HIDE DEF f, K
    <3> QED BY <3>2, <3>3, FS_Surjection
  <2> HIDE DEF K
  <2>5. [b EXCEPT !.roster = K, !.threshold = p.threshold].roster = K  BY DEF SignedBindings
  <2> QED BY <2>1, <2>2, <2>3, <2>4, <2>5 DEF SignedBindings
<1>3. CASE p.kind = "Decommission"
  <2>1. Ordered(b, p) = [b EXCEPT !.status = p.status]  BY <1>3 DEF Ordered
  <2>2. p.status \in STRING  BY DEF Payloads
  <2> QED BY <2>1, <2>2 DEF SignedBindings
<1>4. CASE p.kind \notin {"SetDurability", "SetRoster", "Decommission"}
  <2>1. Ordered(b, p) = b  BY <1>4 DEF Ordered
  <2> QED BY <2>1
<1> QED BY <1>1, <1>2, <1>3, <1>4

\* Remember keeps the last receipts in their places from the end.
LEMMA RememberKeeps ==
  ASSUME NEW kept \in Seq(Requests), NEW r \in Requests
  PROVE  LET new == Remember(kept, r)
         IN  /\ new \in Seq(Requests)
             /\ \A d \in Nat : (d + 1 < MaxReceipts /\ Len(kept) - d \in 1 .. Len(kept)) =>
                  /\ Len(new) - (d + 1) \in 1 .. Len(new)
                  /\ new[Len(new) - (d + 1)] = kept[Len(kept) - d]
             /\ MaxReceipts > 0 => Len(new) \in 1 .. Len(new) /\ new[Len(new)] = r
<1> DEFINE all == Append(kept, r)
           n == Len(kept)
<1>0. MaxReceipts \in Nat /\ n \in Nat  BY ControlAssumption
<1>1. all \in Seq(Requests) /\ Len(all) = n + 1 /\ all[n + 1] = r
      /\ \A i \in 1 .. n : all[i] = kept[i]
  OBVIOUS
<1>2. CASE n + 1 > MaxReceipts
  <2>1. Remember(kept, r) = Tail(all)  BY <1>1, <1>2 DEF Remember
  <2>2. Tail(all) \in Seq(Requests) /\ Len(Tail(all)) = n
        /\ \A i \in 1 .. n : Tail(all)[i] = all[i + 1]
    BY <1>0, <1>1
  <2> HIDE DEF all
  <2>3. \A d \in Nat : (d + 1 < MaxReceipts /\ n - d \in 1 .. n) =>
          n - (d + 1) \in 1 .. n /\ Tail(all)[n - (d + 1)] = kept[n - d]
    <3> TAKE d \in Nat
    <3> HAVE d + 1 < MaxReceipts /\ n - d \in 1 .. n
    <3>1. n - (d + 1) \in 1 .. n /\ (n - (d + 1)) + 1 = n - d  BY <1>0, <1>2
    <3> QED BY <3>1, <2>2, <1>1
  <2>4. MaxReceipts > 0 => n \in 1 .. n /\ Tail(all)[n] = r
    BY <1>0, <1>1, <1>2, <2>2
  <2> QED BY <2>1, <2>2, <2>3, <2>4
<1>3. CASE ~(n + 1 > MaxReceipts)
  <2>1. Remember(kept, r) = all  BY <1>1, <1>3 DEF Remember
  <2> HIDE DEF all
  <2>2. \A d \in Nat : (d + 1 < MaxReceipts /\ n - d \in 1 .. n) =>
          (n + 1) - (d + 1) \in 1 .. n + 1 /\ all[(n + 1) - (d + 1)] = kept[n - d]
    <3> TAKE d \in Nat
    <3> HAVE d + 1 < MaxReceipts /\ n - d \in 1 .. n
    <3>1. (n + 1) - (d + 1) = n - d /\ n - d \in 1 .. n + 1  BY <1>0
    <3> QED BY <3>1, <1>1
  <2>3. n + 1 \in 1 .. n + 1  BY <1>0
  <2> QED BY <1>1, <2>1, <2>2, <2>3
<1> QED BY <1>2, <1>3

\* What an executed intent writes.
LEMMA SuccessorFields ==
  ASSUME DocsOK, NEW b \in docs, NEW r \in Intents
  PROVE  LET n == Successor(b, r)
         IN  /\ n \in SignedBindings /\ IsFiniteSet(n.roster) /\ n \notin docs
             /\ n.id = Cardinality(docs) + 1 /\ Cardinality(docs) \in Nat
             /\ n.operation_id = r.operation_id /\ n.kept = Remember(b.kept, r)
             /\ SameScope(n, b) /\ Follows(b, n)
<1> DEFINE o == Ordered(b, r.payload)
           id == Cardinality(docs) + 1
           n == [o EXCEPT !.id = id, !.revision = b.revision + 1, !.operation_id = r.operation_id,
                   !.previous = b.id, !.kept = Remember(o.kept, r), !.line = b.line \cup {id}]
<1>1. Successor(b, r) = n  BY DEF Successor
<1>2. r \in Requests /\ r.payload \in Payloads /\ r.operation_id \in Nat
  BY ControlAssumption DEF Requests
<1>3. /\ o \in SignedBindings /\ IsFiniteSet(o.roster) /\ o.kept = b.kept
      /\ o.authority_id = b.authority_id /\ o.epoch = b.epoch
  BY <1>2, DocFields, OrderedFields
<1>4. Cardinality(docs) \in Nat  BY FS_CardinalityType DEF DocsOK
<1>5. b.revision \in Nat /\ b.id \in Nat /\ b.line \in SUBSET Nat /\ b.kept \in Seq(Requests)
  BY DocFields DEF SignedBindings
<1>6. Remember(o.kept, r) \in Seq(Requests)  BY <1>2, <1>3, <1>5, RememberKeeps
<1> HIDE DEF o
<1>7. n \in SignedBindings
  <2>1. id \in Nat /\ b.revision + 1 \in Nat /\ b.line \cup {id} \in SUBSET Nat  BY <1>4, <1>5
  <2> HIDE DEF id
  <2> QED BY <1>2, <1>3, <1>5, <1>6, <2>1 DEF SignedBindings
<1>8. /\ n.id = id /\ n.revision = b.revision + 1 /\ n.operation_id = r.operation_id
      /\ n.previous = b.id /\ n.kept = Remember(o.kept, r) /\ n.line = b.line \cup {id}
  BY <1>3 DEF SignedBindings
<1>9. n.roster = o.roster /\ n.authority_id = o.authority_id /\ n.epoch = o.epoch
  BY <1>3 DEF SignedBindings
<1> HIDE DEF n
<1>10. n \notin docs  BY <1>4, <1>8 DEF DocsOK
<1> QED BY <1>1, <1>3, <1>4, <1>7, <1>8, <1>9, <1>10 DEF SameScope, Follows

\* What a server has checked of an intent it executes.
LEMMA ExecutedChecks ==
  ASSUME DocsOK, NEW s \in Names, servers[s].binding \in docs, NEW r \in Intents, NEW keys \in KeyLists,
         Outcome(s, r, keys) = "Executed"
  PROVE  LET b == servers[s].binding
         IN  /\ r.authority_id = b.authority_id /\ r.epoch = b.epoch /\ r.expected_revision = b.revision
             /\ SameId(b, r) = {}
             /\ b.threshold > 0 /\ Cardinality(b.roster \cap SignedBy[r]) >= b.threshold
<1> DEFINE b == servers[s].binding
<1>1. /\ open_request(r, keys) /\ r.authority_id = b.authority_id /\ r.epoch = b.epoch
      /\ SameId(b, r) = {} /\ r.expected_revision = b.revision /\ QuorumOf(b, keys)
  BY DEF Outcome
<1>2. IsFiniteSet(b.roster) /\ b.threshold \in Nat /\ keys \in Seq(Nat)
  BY DocFields, DocumentsAssumption
<1>3. split_request(keys) /\ \A i \in DOMAIN keys : keys[i] \in SignedBy[r]
  BY <1>1 DEF open_request
<1> DEFINE A == b.roster \cap SignedBy[r]
           P == {i \in DOMAIN keys : keys[i] \in b.roster}
<1>4. Cardinality(P) <= Cardinality(A)
  <2>1. A \in SUBSET b.roster /\ \A i \in DOMAIN keys : keys[i] \in b.roster => keys[i] \in A
    BY <1>3
  <2> HIDE DEF A, b
  <2> QED BY <2>1, <1>2, <1>3, ListedAreSigners
<1>5. Cardinality(P) \in Nat /\ Cardinality(A) \in Nat
  <2>1. DOMAIN keys = 1 .. Len(keys) /\ Len(keys) \in Nat  BY <1>2
  <2>2. IsFiniteSet(DOMAIN keys)  BY <2>1, FS_Interval
  <2>3. IsFiniteSet(P) /\ IsFiniteSet(A)  BY <1>2, <2>2, FS_Subset
  <2> QED BY <2>3, FS_CardinalityType
<1>6. b.threshold > 0 /\ Cardinality(P) >= b.threshold  BY <1>1 DEF QuorumOf
<1>7. Cardinality(A) >= b.threshold  BY <1>2, <1>4, <1>5, <1>6
<1> QED BY <1>1, <1>6, <1>7

\* The new binding continues the line of the one it follows.
LEMMA ExecuteDocs ==
  ASSUME DocsOK, LinesOK, Remembered, ChangedByQuorum,
         NEW s \in Names, servers[s].binding \in docs, NEW r \in Intents, NEW keys \in KeyLists,
         Outcome(s, r, keys) = "Executed", docs' = docs \cup {Successor(servers[s].binding, r)}
  PROVE  DocsOK' /\ LinesOK' /\ Remembered' /\ ChangedByQuorum'
<1> DEFINE b == servers[s].binding
           n == Successor(b, r)
<1>1. /\ n \in SignedBindings /\ IsFiniteSet(n.roster) /\ n \notin docs
      /\ n.id = Cardinality(docs) + 1 /\ Cardinality(docs) \in Nat
      /\ n.operation_id = r.operation_id /\ n.kept = Remember(b.kept, r)
      /\ SameScope(n, b) /\ Follows(b, n)
  BY SuccessorFields
<1>2. /\ b \in docs /\ b.revision \in Nat /\ b.kept \in Seq(Requests) /\ r \in Requests
      /\ n.previous = b.id /\ n.revision = b.revision + 1 /\ n.line = b.line \cup {n.id}
  BY <1>1, DocFields, ControlAssumption DEF Follows
<1>3. docs' = docs \cup {n}  OBVIOUS
<1>4. /\ r.authority_id = b.authority_id /\ r.epoch = b.epoch /\ r.expected_revision = b.revision
      /\ SameId(b, r) = {}
      /\ b.threshold > 0 /\ Cardinality(b.roster \cap SignedBy[r]) >= b.threshold
  BY ExecutedChecks
<1> HIDE DEF n, b
<1>5. DocsOK'
  <2>1. IsFiniteSet(docs') /\ Cardinality(docs') = Cardinality(docs) + 1
    BY <1>1, <1>3, FS_AddElement DEF DocsOK
  <2>2. n.id \in 1 .. Cardinality(docs') /\ \A a \in docs : a.id # n.id /\ a.id \in 1 .. Cardinality(docs')
    <3>1. \A a \in docs : a.id \in 1 .. Cardinality(docs)  BY DEF DocsOK
    <3> DEFINE N == Cardinality(docs)
               M == Cardinality(docs')
    <3>2. M = N + 1 /\ N \in Nat /\ n.id = N + 1 /\ \A a \in docs : a.id \in 1 .. N
      BY <1>1, <2>1, <3>1
    <3> HIDE DEF N, M
    <3>3. n.id \in 1 .. M /\ \A a \in docs : a.id # n.id /\ a.id \in 1 .. M  BY <3>2
    <3> QED BY <3>3 DEF M
  <2>3. docs' \in SUBSET SignedBindings /\ Created \subseteq docs'  BY <1>1, <1>3 DEF DocsOK
  <2>4. \A a, c \in docs' : a.id = c.id => a = c  BY <1>3, <2>2 DEF DocsOK
  <2>5. \A a \in docs' : a.id \in 1 .. Cardinality(docs') /\ IsFiniteSet(a.roster)
    BY <1>1, <1>3, <2>2 DEF DocsOK
  <2> QED BY <2>1, <2>3, <2>4, <2>5 DEF DocsOK
<1>6. \A a \in docs : n.id \notin a.line /\ a.id # n.id /\ a.id \in Nat /\ a.revision \in Nat
  <2>1. \A a \in docs : a.id # n.id  BY <1>1 DEF DocsOK
  <2> QED BY <2>1, DocFields DEF LinesOK
<1>7. LinesOK'
  <2>1. n.id \in n.line /\ n.line \subseteq {a.id : a \in docs'} /\ (\E a \in docs' : Follows(a, n))
    BY <1>1, <1>2, <1>3 DEF LinesOK
  <2>2. \A a \in docs' : /\ a.id \in a.line /\ a.line \subseteq {c.id : c \in docs'}
                         /\ a.revision > 0 => \E c \in docs' : Follows(c, a)
    BY <1>3, <2>1 DEF LinesOK
  <2>3. \A a \in docs : a.id \in n.line => a.id \in b.line  BY <1>2, <1>6
  <2>4. \A a, c \in docs' : a.id \in c.line =>
          /\ SameScope(a, c) /\ a.line \subseteq c.line
          /\ a.revision <= c.revision /\ (a.revision = c.revision => a = c)
    <3> SUFFICES ASSUME NEW a \in docs', NEW c \in docs', a.id \in c.line
                 PROVE  /\ SameScope(a, c) /\ a.line \subseteq c.line
                        /\ a.revision <= c.revision /\ (a.revision = c.revision => a = c)
      OBVIOUS
    <3>1. CASE a \in docs /\ c \in docs  BY <3>1 DEF LinesOK
    <3>2. CASE a = n /\ c = n  BY <3>2, <1>2 DEF SameScope
    <3>3. CASE a = n /\ c \in docs  BY <3>3, <1>6
    <3>4. CASE a \in docs /\ c = n
      <4>1. a.id \in b.line  BY <3>4, <2>3
      <4>2. SameScope(a, b) /\ a.line \subseteq b.line /\ a.revision <= b.revision
        BY <3>4, <4>1, <1>2 DEF LinesOK
      <4>3. a.revision < n.revision  BY <3>4, <4>2, <1>2, <1>6
      <4> QED BY <3>4, <4>2, <4>3, <1>1, <1>2, <1>6 DEF SameScope
    <3> QED BY <1>3, <3>1, <3>2, <3>3, <3>4
  <2>5. \A a, c, d \in docs' :
          (a.id \in d.line /\ c.id \in d.line /\ a.revision <= c.revision) => a.id \in c.line
    <3> SUFFICES ASSUME NEW a \in docs', NEW c \in docs', NEW d \in docs',
                        a.id \in d.line, c.id \in d.line, a.revision <= c.revision
                 PROVE  a.id \in c.line
      OBVIOUS
    <3>1. CASE d \in docs
      <4>1. a # n /\ c # n  BY <3>1, <1>6
      <4> QED BY <3>1, <4>1, <1>3 DEF LinesOK
    <3>2. CASE d = n
      <4>1. CASE c = n  BY <3>2, <4>1
      <4>2. CASE c # n
        <5>1. c \in docs /\ c.id \in b.line  BY <3>2, <4>2, <1>3, <2>3
        <5>2. c.revision <= b.revision  BY <5>1, <1>2 DEF LinesOK
        <5>3. a # n  BY <5>1, <5>2, <1>2, <1>6
        <5>4. a \in docs /\ a.id \in b.line  BY <3>2, <5>3, <1>3, <2>3
        <5> QED BY <5>1, <5>4, <1>2 DEF LinesOK
      <4> QED BY <4>1, <4>2
    <3> QED BY <1>3, <3>1, <3>2
  <2> QED BY <2>2, <2>4, <2>5 DEF LinesOK
<1>8. MaxReceipts \in Nat  BY ControlAssumption
<1>9. Remembered'
  <2> SUFFICES ASSUME NEW a \in docs', NEW c \in docs', a.id \in c.line, a.revision > 0,
                      c.revision < a.revision + MaxReceipts
               PROVE  LET i == Len(c.kept) - (c.revision - a.revision)
                      IN  i \in 1 .. Len(c.kept) /\ c.kept[i].operation_id = a.operation_id
    BY DEF Remembered
  <2>1. CASE c \in docs
    <3>1. a # n  BY <2>1, <1>6
    <3> QED BY <2>1, <3>1, <1>3 DEF Remembered
  <2>2. CASE a = n /\ c = n
    <3>1. MaxReceipts > 0  BY <2>2, <1>2, <1>8
    <3>2. Len(n.kept) \in 1 .. Len(n.kept) /\ n.kept[Len(n.kept)] = r
      <4>1. b.kept \in Seq(Requests) /\ r \in Requests /\ n.kept = Remember(b.kept, r)  BY <1>1, <1>2
      <4> DEFINE k == b.kept
                 m == Remember(k, r)
      <4>2. Len(m) \in 1 .. Len(m) /\ m[Len(m)] = r
        <5>1. k \in Seq(Requests)  BY <4>1
        <5> HIDE DEF k
        <5> QED BY <3>1, <4>1, <5>1, RememberKeeps
      <4> QED BY <4>1, <4>2
    <3>3. Len(n.kept) - (n.revision - n.revision) = Len(n.kept)  BY <3>2, <1>2
    <3> QED BY <2>2, <3>2, <3>3, <1>1
  <2>3. CASE a \in docs /\ c = n
    <3> DEFINE d == b.revision - a.revision
    <3>1. a.id \in b.line /\ a.revision <= b.revision /\ a.revision \in Nat
      BY <2>3, <1>2, <1>6 DEF LinesOK
    <3>2. d \in Nat /\ n.revision - a.revision = d + 1 /\ d + 1 < MaxReceipts
          /\ b.revision < a.revision + MaxReceipts
      BY <2>3, <3>1, <1>2, <1>8
    <3>3. Len(b.kept) - d \in 1 .. Len(b.kept) /\ b.kept[Len(b.kept) - d].operation_id = a.operation_id
      BY <2>3, <3>1, <3>2, <1>2 DEF Remembered
    <3>4. Len(n.kept) - (d + 1) \in 1 .. Len(n.kept) /\ n.kept[Len(n.kept) - (d + 1)] = b.kept[Len(b.kept) - d]
      <4>1. \A e \in Nat : (e + 1 < MaxReceipts /\ Len(b.kept) - e \in 1 .. Len(b.kept)) =>
              /\ Len(n.kept) - (e + 1) \in 1 .. Len(n.kept)
              /\ n.kept[Len(n.kept) - (e + 1)] = b.kept[Len(b.kept) - e]
        <5>1. b.kept \in Seq(Requests) /\ r \in Requests /\ n.kept = Remember(b.kept, r)  BY <1>1, <1>2
        <5> DEFINE k == b.kept
                   m == Remember(k, r)
        <5>2. \A e \in Nat : (e + 1 < MaxReceipts /\ Len(k) - e \in 1 .. Len(k)) =>
                Len(m) - (e + 1) \in 1 .. Len(m) /\ m[Len(m) - (e + 1)] = k[Len(k) - e]
          <6>1. k \in Seq(Requests)  BY <5>1
          <6> HIDE DEF k
          <6> QED BY <5>1, <6>1, RememberKeeps
        <5> QED BY <5>1, <5>2
      <4> HIDE DEF d
      <4> QED BY <3>2, <3>3, <4>1
    <3> HIDE DEF d
    <3> QED BY <2>3, <3>2, <3>3, <3>4
  <2> QED BY <1>3, <2>1, <2>2, <2>3
<1>10. ChangedByQuorum'
  <2>1. \A a \in docs : a.id \in n.line =>
          /\ a.revision < n.revision
          /\ (a.revision > 0 /\ a.operation_id = n.operation_id)
             => n.revision > a.revision + MaxReceipts
    <3> SUFFICES ASSUME NEW a \in docs, a.id \in n.line
                 PROVE  /\ a.revision < n.revision
                        /\ (a.revision > 0 /\ a.operation_id = n.operation_id)
                           => n.revision > a.revision + MaxReceipts
      OBVIOUS
    <3>1. a.id \in b.line /\ a.revision <= b.revision /\ a.revision \in Nat
      BY <1>2, <1>6 DEF LinesOK
    <3>2. a.revision < n.revision  BY <3>1, <1>2
    <3>3. ASSUME a.revision > 0, a.operation_id = r.operation_id, b.revision < a.revision + MaxReceipts
          PROVE  FALSE
      <4>1. \E i \in 1 .. Len(b.kept) : b.kept[i].operation_id = a.operation_id
        BY <3>1, <3>3, <1>2 DEF Remembered
      <4>2. DOMAIN b.kept = 1 .. Len(b.kept)  BY <1>2
      <4> QED BY <3>3, <4>1, <4>2, <1>4 DEF SameId
    <3>4. ~(b.revision < a.revision + MaxReceipts) => n.revision > a.revision + MaxReceipts
      BY <3>1, <1>2, <1>8
    <3> QED BY <3>2, <3>3, <3>4, <1>1
  <2>2. /\ b.id = n.previous /\ b.id \in n.line /\ r.operation_id = n.operation_id
        /\ r.expected_revision = b.revision /\ b.revision + 1 = n.revision
        /\ r.authority_id = n.authority_id /\ r.epoch = n.epoch
    BY <1>1, <1>2, <1>4 DEF LinesOK, SameScope
  <2>3. \A c \in docs, a \in docs' : a.id \in c.line => a \in docs  BY <1>3, <1>6
  <2> SUFFICES ASSUME NEW c \in docs', c.revision > 0
               PROVE  /\ \E a \in docs', q \in Intents :
                           /\ a.id = c.previous /\ a.id \in c.line
                           /\ q.operation_id = c.operation_id /\ q.expected_revision = a.revision
                           /\ a.revision + 1 = c.revision
                           /\ q.authority_id = c.authority_id /\ q.epoch = c.epoch
                           /\ a.threshold > 0 /\ Cardinality(a.roster \cap SignedBy[q]) >= a.threshold
                      /\ \A a \in docs' : a.id \in c.line /\ a # c =>
                           /\ a.revision < c.revision
                           /\ (a.revision > 0 /\ a.operation_id = c.operation_id)
                              => c.revision > a.revision + MaxReceipts
    BY DEF ChangedByQuorum
  <2>4. CASE c \in docs  BY <2>3, <2>4, <1>3 DEF ChangedByQuorum
  <2>5. CASE c = n
    <3>1. \E a \in docs', q \in Intents :
            /\ a.id = n.previous /\ a.id \in n.line
            /\ q.operation_id = n.operation_id /\ q.expected_revision = a.revision
            /\ a.revision + 1 = n.revision
            /\ q.authority_id = n.authority_id /\ q.epoch = n.epoch
            /\ a.threshold > 0 /\ Cardinality(a.roster \cap SignedBy[q]) >= a.threshold
      BY <2>2, <1>2, <1>3, <1>4
    <3> QED BY <3>1, <2>1, <2>5, <1>3
  <2> QED BY <1>3, <2>4, <2>5
<1> QED BY <1>5, <1>7, <1>9, <1>10

LEMMA SameDocs ==
  ASSUME DocsOK, LinesOK, Remembered, ChangedByQuorum, docs' = docs
  PROVE  DocsOK' /\ LinesOK' /\ Remembered' /\ ChangedByQuorum'
BY DEF DocsOK, LinesOK, Remembered, ChangedByQuorum

LEMMA ExecutePreserves ==
  ASSUME ControlInv, NEW s \in Names, NEW r \in Intents, NEW keys \in KeyLists, Execute(s, r, keys)
  PROVE  ControlInv'
<1> DEFINE b == servers[s].binding
           n == Successor(b, r)
           q == Receipt(r, n, servers[s].acked)
<1>1. /\ docs' = docs \cup {n} /\ servers' = [servers EXCEPT ![s].binding = n]
      /\ receipts' = receipts \cup {q} /\ said' = ""
      /\ UNCHANGED <<replicavars, clientvars>> /\ Running(s) /\ Outcome(s, r, keys) = "Executed"
  BY DEF Execute
<1>2. b \in docs /\ SameScope(b, First) /\ servers[s].acked \in acks \cup {0}
  BY <1>1, ControlAssumption DEF ControlInv, ServersOK
<1>3. DocsOK' /\ LinesOK' /\ Remembered' /\ ChangedByQuorum'
  BY <1>1, <1>2, ExecuteDocs DEF ControlInv
<1>4. /\ n \in docs' /\ n.id = Cardinality(docs) + 1 /\ Cardinality(docs) \in Nat
      /\ SameScope(n, b) /\ Follows(b, n)
  BY <1>1, <1>2, SuccessorFields DEF ControlInv
<1>5. n.line = b.line \cup {n.id}  BY <1>4 DEF Follows
<1>6. n.id # 0 /\ \A a \in docs : a.id # n.id
  <2>1. \A a \in docs : a.id \in 1 .. Cardinality(docs)  BY DEF ControlInv, DocsOK
  <2> DEFINE N == Cardinality(docs)
  <2>2. N \in Nat /\ n.id = N + 1 /\ \A a \in docs : a.id \in 1 .. N  BY <1>4, <2>1
  <2> HIDE DEF N, n
  <2> QED BY <2>2
<1>7. n # Nothing
  <2>1. Nothing.id = 0  BY ControlAssumption DEF Nothing
  <2> HIDE DEF n
  <2> QED BY <2>1, <1>6
<1>8. /\ servers'[s].binding = n /\ servers'[s].acked = servers[s].acked
      /\ servers' \in [Names -> [binding : docs' \cup {Nothing}, acked : Nat]]
      /\ \A o \in Names : o # s => servers'[o] = servers[o]
  <2>1. servers[s] \in [binding : docs \cup {Nothing}, acked : Nat]  BY DEF ControlInv, ServersOK
  <2> HIDE DEF n
  <2>2. servers'[s] = [servers[s] EXCEPT !.binding = n] /\ \A o \in Names : o # s => servers'[o] = servers[o]
    BY <1>1 DEF ControlInv, ServersOK
  <2>3. [servers[s] EXCEPT !.binding = n] \in [binding : docs' \cup {Nothing}, acked : Nat]
    BY <1>1, <2>1
  <2>4. \A o \in Names : servers'[o] \in [binding : docs' \cup {Nothing}, acked : Nat]
    BY <1>1, <2>2, <2>3 DEF ControlInv, ServersOK
  <2>5. servers' \in [Names -> [binding : docs' \cup {Nothing}, acked : Nat]]
    BY <1>1, <2>4 DEF ControlInv, ServersOK
  <2> QED BY <2>1, <2>2, <2>5
<1> HIDE DEF n
<1>9. Running(s)' /\ \A o \in Names : o # s => (Running(o)' <=> Running(o))
  BY <1>7, <1>8 DEF Running, Off
<1>10. /\ replica' = replica /\ full' = full /\ acks' = acks /\ bootstrapped' = bootstrapped
       /\ seen' = seen /\ accepted' = accepted /\ gap' = gap
  BY <1>1 DEF replicavars, clientvars
<1>11. Running("copy") => Running("copy")'  BY <1>9 DEF Names
<1>12. ServersOK'
  <2>1. SameScope(n, First)  BY <1>2, <1>4 DEF SameScope
  <2>2. Running("service")'  BY <1>9 DEF ControlInv, ServersOK, Names
  <2>3. \A o \in Names : Running(o)' =>
          /\ servers'[o].binding \in docs' /\ SameScope(servers'[o].binding, First)
          /\ servers'[o].acked \in acks' \cup {Zero}
    <3> TAKE o \in Names
    <3> HAVE Running(o)'
    <3>1. CASE o = s  BY <3>1, <2>1, <1>2, <1>4, <1>8, <1>10, ControlAssumption
    <3>2. CASE o # s  BY <3>2, <1>1, <1>8, <1>9, <1>10 DEF ControlInv, ServersOK
    <3> QED BY <3>1, <3>2
  <2> QED BY <1>8, <2>2, <2>3 DEF ServersOK
<1>13. OneWriter'
  <2> SUFFICES ASSUME ~Running("copy")' PROVE
        /\ \A a, c \in docs' : SameScope(a, c) => a.id \in c.line \/ c.id \in a.line
        /\ \A a \in docs' : SameScope(a, First) => a.id \in servers'["service"].binding.line
    BY DEF OneWriter
  <2>1. s = "service" /\ ~Running("copy")  BY <1>9, <1>11 DEF Names
  <2>2. /\ \A a, c \in docs : SameScope(a, c) => a.id \in c.line \/ c.id \in a.line
        /\ \A a \in docs : SameScope(a, First) => a.id \in b.line
    BY <2>1 DEF ControlInv, OneWriter
  <2>3. \A a \in docs' : SameScope(a, First) => a.id \in n.line  BY <1>1, <1>5, <2>2
  <2>4. \A a : SameScope(a, n) \/ SameScope(n, a) => SameScope(a, First)
    BY <1>2, <1>4 DEF SameScope
  <2>5. \A a, c \in docs' : SameScope(a, c) => a.id \in c.line \/ c.id \in a.line
    BY <1>1, <2>2, <2>3, <2>4, ZenonT(60)
  <2> QED BY <1>8, <2>1, <2>3, <2>5
<1>14. Ids \subseteq Ids' /\ n.id \notin Ids \cup {Zero}
  BY <1>1, <1>6, ControlAssumption DEF Ids
<1>15. ReplicaOK'
  <2>1. ReplicaOK  BY DEF ControlInv
  <2>2. \A a \in docs' : a.id \in {replica.stored, replica.cursor} => a \in docs
    BY <1>1, <1>14, <2>1 DEF ReplicaOK
  <2> QED BY <1>10, <1>14, <2>1, <2>2 DEF ReplicaOK
<1>16. Behind'
  <2>1. \A a \in docs' : a.id \in {replica.stored, replica.cursor} => a \in docs
    BY <1>1, <1>14 DEF ControlInv, ReplicaOK
  <2>2. (~bootstrapped \/ ~Running("copy"))' => (~bootstrapped \/ ~Running("copy"))  BY <1>10, <1>11
  <2>3. Behind  BY DEF ControlInv
  <2> QED BY <2>1, <2>2, <2>3, <1>10 DEF Behind
<1>17. ReceiptsOK'
  <2>1. ~(q.outcome = "Committed" /\ q.durability = "Witnessed")
    <3>1. servers[s].acked # n.id  BY <1>2, <1>14, ControlAssumption DEF ControlInv, ReplicaOK
    <3> QED BY <3>1 DEF Receipt
  <2> QED BY <1>1, <1>10, <2>1 DEF ControlInv, ReceiptsOK
<1>18. ClientOK'  BY <1>1, <1>10 DEF ControlInv, ClientOK
<1>19. OneBranch'  BY <1>1, <1>10 DEF ControlInv, OneBranch
<1> QED BY <1>3, <1>12, <1>13, <1>15, <1>16, <1>17, <1>18, <1>19 DEF ControlInv

LEMMA ReplayPreserves ==
  ASSUME ControlInv, NEW s \in Names, NEW r \in Intents, NEW keys \in KeyLists, Replay(s, r, keys)
  PROVE  ControlInv'
<1> DEFINE head == servers[s].binding
<1>1. /\ docs' = docs /\ servers' = servers /\ said' = "" /\ replica' = replica /\ full' = full
      /\ acks' = acks /\ bootstrapped' = bootstrapped /\ seen' = seen /\ accepted' = accepted
      /\ gap' = gap /\ Running(s)
  BY DEF Replay, replicavars, clientvars
<1>2. PICK b \in docs :
        /\ b.id \in head.line
        /\ receipts' = receipts \cup
             {[Receipt(r, head, servers[s].acked) EXCEPT !.revision = b.revision, !.commit = b.id]}
  BY DEF Replay
<1>3. DocsOK' /\ LinesOK' /\ Remembered' /\ ChangedByQuorum'  BY <1>1, SameDocs DEF ControlInv
<1>4. head \in docs /\ servers[s].acked \in acks \cup {0}
  BY <1>1, ControlAssumption DEF ControlInv, ServersOK
<1>5. ReceiptsOK'
  <2> DEFINE o == Receipt(r, head, servers[s].acked)
             q == [o EXCEPT !.revision = b.revision, !.commit = b.id]
  <2>1. /\ q.revision = b.revision /\ q.commit = b.id /\ q.outcome = o.outcome
        /\ q.durability = o.durability
    BY DEF Receipt
  <2>2. o.outcome = "Committed" /\ o.durability = "Witnessed" => servers[s].acked = head.id
    BY DEF Receipt
  <2>3. head.id # 0  BY <1>4, DocFields DEF ControlInv
  <2>4. q.outcome = "Committed" /\ q.durability = "Witnessed" => head.id \in acks
    BY <1>4, <2>1, <2>2, <2>3
  <2>5. receipts' = receipts \cup {q} /\ b.id \in head.line  BY <1>2
  <2> HIDE DEF q, head
  <2>6. q.outcome = "Committed" /\ q.durability = "Witnessed" =>
          \E h, c \in docs :
            h.id \in acks /\ c.id \in h.line /\ q.commit = c.id /\ q.revision = c.revision
    BY <1>4, <2>1, <2>4, <2>5
  <2> SUFFICES ASSUME NEW x \in receipts', x.outcome = "Committed", x.durability = "Witnessed"
               PROVE  \E h, c \in docs :
                        h.id \in acks /\ c.id \in h.line /\ x.commit = c.id /\ x.revision = c.revision
    BY <1>1 DEF ReceiptsOK
  <2>7. CASE x \in receipts  BY <2>7 DEF ControlInv, ReceiptsOK
  <2>8. CASE x = q  BY <2>6, <2>8
  <2> QED BY <2>5, <2>7, <2>8
<1>6. ServersOK' /\ OneWriter'
  BY <1>1 DEF ControlInv, ServersOK, OneWriter, Running
<1>7. ReplicaOK' /\ Behind'
  BY <1>1 DEF ControlInv, ReplicaOK, Behind, Ids, Running
<1>8. ClientOK' /\ OneBranch'
  BY <1>1 DEF ControlInv, ClientOK, OneBranch, Running
<1> QED BY <1>3, <1>5, <1>6, <1>7, <1>8 DEF ControlInv

LEMMA RestorePreserves ==
  ASSUME ControlInv, NEW b \in docs, RestoreBackup(b)
  PROVE  ControlInv'
<1> DEFINE N == [Off EXCEPT !.binding = b]
<1>1. /\ docs' = docs /\ receipts' = receipts /\ said' = "" /\ replica' = replica /\ full' = full
      /\ acks' = acks /\ bootstrapped' = bootstrapped /\ seen' = seen /\ accepted' = accepted
      /\ gap' = gap /\ servers' = [servers EXCEPT !["copy"] = N]
      /\ b.id \in servers["service"].binding.line /\ ~Running("copy")
  BY DEF RestoreBackup, replicavars, clientvars
<1>2. DocsOK' /\ LinesOK' /\ Remembered' /\ ChangedByQuorum'  BY <1>1, SameDocs DEF ControlInv
<1>3. N.binding = b /\ N.acked = 0 /\ N \in [binding : docs \cup {Nothing}, acked : Nat]
  BY ControlAssumption DEF Off
<1>4. b # Nothing  BY DocFields DEF ControlInv
<1> HIDE DEF N
<1>5. /\ servers' \in [Names -> [binding : docs \cup {Nothing}, acked : Nat]]
      /\ servers'["copy"] = N /\ servers'["service"] = servers["service"]
  BY <1>1, <1>3 DEF ControlInv, ServersOK, Names
<1>6. Running("copy")' /\ (Running("service")' <=> Running("service"))
  BY <1>3, <1>4, <1>5 DEF Running, Off
<1>7. ServersOK'
  <2>1. servers["service"].binding \in docs /\ SameScope(servers["service"].binding, First)
    BY DEF ControlInv, ServersOK, Names
  <2>2. SameScope(b, First)
    <3>1. SameScope(b, servers["service"].binding)  BY <1>1, <2>1 DEF ControlInv, LinesOK
    <3> QED BY <2>1, <3>1 DEF SameScope
  <2>3. \A s \in Names : Running(s)' =>
          /\ servers'[s].binding \in docs /\ SameScope(servers'[s].binding, First)
          /\ servers'[s].acked \in acks \cup {Zero}
    BY <1>3, <1>5, <1>6, <2>1, <2>2, ControlAssumption DEF ControlInv, ServersOK, Names
  <2> QED BY <1>1, <1>5, <1>6, <2>3 DEF ControlInv, ServersOK
<1>8. OneWriter'  BY <1>6 DEF OneWriter
<1>9. ReplicaOK'  BY <1>1 DEF ControlInv, ReplicaOK, Ids
<1>10. Behind'  BY <1>1, <1>6 DEF ControlInv, Behind
<1>11. ReceiptsOK'  BY <1>1 DEF ControlInv, ReceiptsOK
<1>12. ClientOK' /\ OneBranch'  BY <1>1 DEF ControlInv, ClientOK, OneBranch
<1> QED BY <1>2, <1>7, <1>8, <1>9, <1>10, <1>11, <1>12 DEF ControlInv

\* A state the replica takes continues the one its cursor is at, unless it was
\* sent whole while two servers write.
LEMMA TakenContinues ==
  ASSUME ControlInv, NEW b \in docs, NEW whole \in BOOLEAN, PushAnswer(b, whole) = "Take",
         whole => ~Running("copy")
  PROVE  SameScope(b, First) /\ replica.cursor \in b.line \cup {Zero}
<1>1. Doc(1) = First  BY DocOne DEF ControlInv
<1>2. SameScope(b, First)  BY <1>1 DEF PushAnswer, SameScope
<1>3. CASE replica.cursor = Zero  BY <1>2, <1>3
<1>4. CASE replica.cursor # Zero
  <2>1. PICK c \in docs : c.id = replica.cursor  BY <1>4 DEF ControlInv, ReplicaOK, Ids
  <2>2. CursorSeq = c.revision + 1  BY <1>4, <2>1, DocIs DEF ControlInv, CursorSeq, seq
  <2>3. SameScope(c, First)  BY <2>1 DEF ControlInv, ReplicaOK
  <2>4. b.revision \in Nat /\ c.revision \in Nat  BY DocFields DEF ControlInv
  <2>5. CASE whole /\ seq(b) > CursorSeq
    <3>1. b.revision > c.revision  BY <2>2, <2>4, <2>5 DEF seq
    <3>2. SameScope(b, c)  BY <1>2, <2>3 DEF SameScope
    <3>3. b.id \in c.line \/ c.id \in b.line  BY <3>2, <2>5 DEF ControlInv, OneWriter
    <3>4. b.id \in c.line => b.revision <= c.revision  BY DEF ControlInv, LinesOK
    <3> QED BY <1>2, <2>1, <2>4, <3>1, <3>3, <3>4
  <2>6. CASE seq(b) = CursorSeq + 1 /\ b.previous = replica.cursor
    <3>1. b.revision > 0  BY <2>2, <2>4, <2>6 DEF seq
    <3>2. PICK a \in docs : Follows(a, b)  BY <3>1 DEF ControlInv, LinesOK
    <3>3. a.id = c.id /\ a.id \in a.line  BY <2>1, <2>6, <3>2 DEF Follows, ControlInv, LinesOK
    <3> QED BY <1>2, <2>1, <3>2, <3>3 DEF Follows
  <2> QED BY <2>5, <2>6 DEF PushAnswer
<1> QED BY <1>3, <1>4

LEMMA StorePreserves ==
  ASSUME ControlInv, NEW b \in docs, NEW whole \in BOOLEAN, StoreSnapshot(b, whole)
  PROVE  ControlInv'
<1>1. /\ docs' = docs /\ servers' = servers /\ receipts' = receipts /\ said' = "" /\ full' = full
      /\ acks' = acks /\ bootstrapped' = (bootstrapped \/ whole) /\ seen' = seen
      /\ accepted' = accepted /\ gap' = gap
      /\ replica' = [replica EXCEPT !.stored = b.id, !.taking = b.id]
      /\ PushAnswer(b, whole) = "Take"
  BY DEF StoreSnapshot, servervars, clientvars
<1>2. DocsOK' /\ LinesOK' /\ Remembered' /\ ChangedByQuorum'  BY <1>1, SameDocs DEF ControlInv
<1>3. b.id \in Nat /\ b.id # 0 /\ b.id \in Ids  BY DocFields DEF ControlInv, Ids
<1>4. /\ replica' \in [stored : Nat, cursor : Nat, taking : Nat]
      /\ replica'.stored = b.id /\ replica'.taking = b.id /\ replica'.cursor = replica.cursor
  BY <1>1, <1>3 DEF ControlInv, ReplicaOK
<1>5. Running("copy")' <=> Running("copy")  BY <1>1 DEF Running
<1>6. SameScope(b, First)
  <2>1. Doc(1) = First  BY DocOne DEF ControlInv
  <2> QED BY <1>1, <2>1 DEF PushAnswer, SameScope
<1>7. \A a \in docs : a.id = b.id => a = b  BY DEF ControlInv, DocsOK
<1>8. ReplicaOK'
  BY <1>1, <1>3, <1>4, <1>6, <1>7 DEF ControlInv, ReplicaOK, Ids
<1>9. Behind'
  <2> SUFFICES ASSUME ~bootstrapped' \/ ~Running("copy")' PROVE
        /\ replica'.cursor = Zero => acks' = {}
        /\ replica'.stored = Zero => replica'.cursor = Zero
        /\ \A a \in docs' : a.id = replica'.cursor => acks' \subseteq a.line
        /\ \A a \in docs' : a.id = replica'.stored => replica'.cursor \in a.line \cup {Zero}
    BY DEF Behind
  <2>1. ~bootstrapped \/ ~Running("copy")  BY <1>1, <1>5 DEF ControlInv, ReplicaOK
  <2>2. whole => ~Running("copy")  BY <1>1, <1>5
  <2>3. replica.cursor \in b.line \cup {Zero}  BY <1>1, <2>2, TakenContinues
  <2> QED BY <1>1, <1>3, <1>4, <1>7, <2>1, <2>3, ControlAssumption DEF ControlInv, Behind
<1>10. ReceiptsOK'  BY <1>1 DEF ControlInv, ReceiptsOK
<1>11. ServersOK' /\ OneWriter'
  BY <1>1 DEF ControlInv, ServersOK, OneWriter, Running
<1>12. ClientOK' /\ OneBranch'
  BY <1>1 DEF ControlInv, ClientOK, OneBranch
<1> QED BY <1>2, <1>8, <1>9, <1>10, <1>11, <1>12 DEF ControlInv

LEMMA MoveCursorPreserves ==
  ASSUME ControlInv, MoveCursor
  PROVE  ControlInv'
<1>1. /\ docs' = docs /\ servers' = servers /\ receipts' = receipts /\ said' = "" /\ full' = full
      /\ acks' = acks \cup {replica.taking} /\ bootstrapped' = bootstrapped /\ seen' = seen
      /\ accepted' = accepted /\ gap' = gap /\ replica.taking # Zero
      /\ replica' = [replica EXCEPT !.cursor = replica.taking, !.taking = Zero]
  BY DEF MoveCursor, servervars, clientvars
<1>2. DocsOK' /\ LinesOK' /\ Remembered' /\ ChangedByQuorum'  BY <1>1, SameDocs DEF ControlInv
<1>3. replica.taking = replica.stored /\ replica.stored \in Ids  BY <1>1 DEF ControlInv, ReplicaOK
<1>4. /\ replica' \in [stored : Nat, cursor : Nat, taking : Nat]
      /\ replica'.stored = replica.stored /\ replica'.taking = Zero /\ replica'.cursor = replica.stored
  BY <1>1, <1>3, ControlAssumption DEF ControlInv, ReplicaOK
<1>5. Running("copy")' <=> Running("copy")  BY <1>1 DEF Running
<1>6. ReplicaOK'  BY <1>1, <1>3, <1>4 DEF ControlInv, ReplicaOK, Ids
<1>7. PICK b \in docs : b.id = replica.stored  BY <1>3 DEF Ids
<1>8. Behind'
  <2> SUFFICES ASSUME ~bootstrapped' \/ ~Running("copy")' PROVE
        /\ replica'.cursor = Zero => acks' = {}
        /\ replica'.stored = Zero => replica'.cursor = Zero
        /\ \A a \in docs' : a.id = replica'.cursor => acks' \subseteq a.line
        /\ \A a \in docs' : a.id = replica'.stored => replica'.cursor \in a.line \cup {Zero}
    BY DEF Behind
  <2>1. ~bootstrapped \/ ~Running("copy")  BY <1>1, <1>5
  <2>2. \A a \in docs : a.id = b.id => a = b  BY DEF ControlInv, DocsOK
  <2>3. b.id \in b.line  BY DEF ControlInv, LinesOK
  <2>4. acks \subseteq b.line
    <3>1. replica.cursor \in b.line \cup {Zero}  BY <1>7, <2>1 DEF ControlInv, Behind
    <3>2. CASE replica.cursor = Zero  BY <2>1, <3>2 DEF ControlInv, Behind
    <3>3. CASE replica.cursor # Zero
      <4>1. PICK c \in docs : c.id = replica.cursor  BY <3>3 DEF ControlInv, ReplicaOK, Ids
      <4>2. c.line \subseteq b.line  BY <3>1, <3>3, <4>1 DEF ControlInv, LinesOK
      <4>3. acks \subseteq c.line  BY <2>1, <4>1 DEF ControlInv, Behind
      <4> QED BY <4>2, <4>3
    <3> QED BY <3>2, <3>3
  <2> QED BY <1>1, <1>3, <1>4, <1>7, <2>2, <2>3, <2>4
<1>9. ReceiptsOK'  BY <1>1 DEF ControlInv, ReceiptsOK
<1>10. ServersOK'  BY <1>1 DEF ControlInv, ServersOK, Running
<1>11. OneWriter'  BY <1>1 DEF ControlInv, OneWriter, Running
<1>12. ClientOK' /\ OneBranch'  BY <1>1 DEF ControlInv, ClientOK, OneBranch
<1> QED BY <1>2, <1>6, <1>8, <1>9, <1>10, <1>11, <1>12 DEF ControlInv

LEMMA InterruptPreserves ==
  ASSUME ControlInv, Interrupt
  PROVE  ControlInv'
<1>1. /\ docs' = docs /\ servers' = servers /\ receipts' = receipts /\ said' = "" /\ full' = full
      /\ acks' = acks /\ bootstrapped' = bootstrapped /\ seen' = seen
      /\ accepted' = accepted /\ gap' = gap /\ replica' = [replica EXCEPT !.taking = Zero]
  BY DEF Interrupt, servervars, clientvars
<1>2. DocsOK' /\ LinesOK' /\ Remembered' /\ ChangedByQuorum'  BY <1>1, SameDocs DEF ControlInv
<1>3. /\ replica' \in [stored : Nat, cursor : Nat, taking : Nat]
      /\ replica'.stored = replica.stored /\ replica'.taking = Zero /\ replica'.cursor = replica.cursor
  BY <1>1, ControlAssumption DEF ControlInv, ReplicaOK
<1>4. ReplicaOK'  BY <1>1, <1>3 DEF ControlInv, ReplicaOK, Ids
<1>5. Behind'  BY <1>1, <1>3 DEF ControlInv, Behind, Running
<1>6. ReceiptsOK'  BY <1>1 DEF ControlInv, ReceiptsOK
<1>7. ServersOK' /\ OneWriter'  BY <1>1 DEF ControlInv, ServersOK, OneWriter, Running
<1>8. ClientOK' /\ OneBranch'  BY <1>1 DEF ControlInv, ClientOK, OneBranch
<1> QED BY <1>2, <1>4, <1>5, <1>6, <1>7, <1>8 DEF ControlInv

LEMMA SendWholePreserves ==
  ASSUME ControlInv, NEW s \in Names, NEW b \in docs, SendWhole(s, b)
  PROVE  ControlInv'
<1>1. /\ docs' = docs /\ servers' = servers /\ receipts' = receipts /\ said' = ""
      /\ full' = full \cup {b.id} /\ acks' = acks /\ bootstrapped' = bootstrapped /\ seen' = seen
      /\ accepted' = accepted /\ gap' = gap /\ replica' = replica
  BY DEF SendWhole, servervars, clientvars
<1>2. DocsOK' /\ LinesOK' /\ Remembered' /\ ChangedByQuorum'  BY <1>1, SameDocs DEF ControlInv
<1>3. ReplicaOK'  BY <1>1 DEF ControlInv, ReplicaOK, Ids
<1>4. Behind'  BY <1>1 DEF ControlInv, Behind, Running
<1>5. ReceiptsOK'  BY <1>1 DEF ControlInv, ReceiptsOK
<1>6. ServersOK' /\ OneWriter'  BY <1>1 DEF ControlInv, ServersOK, OneWriter, Running
<1>7. ClientOK' /\ OneBranch'  BY <1>1 DEF ControlInv, ClientOK, OneBranch
<1> QED BY <1>2, <1>3, <1>4, <1>5, <1>6, <1>7 DEF ControlInv

\* With one server at work the replica never meets a second history.
LEMMA RefusePushPreserves ==
  ASSUME ControlInv, NEW b \in docs, NEW whole \in BOOLEAN, RefusePush(b, whole)
  PROVE  ControlInv'
<1>1. /\ docs' = docs /\ servers' = servers /\ receipts' = receipts
      /\ full' = full /\ acks' = acks /\ bootstrapped' = bootstrapped /\ seen' = seen
      /\ accepted' = accepted /\ gap' = gap /\ replica' = replica
      /\ said' = PushAnswer(b, whole) /\ said' \in {"OtherScope", "HistoryConflict"}
  BY DEF RefusePush, servervars, replicavars, clientvars
<1>2. DocsOK' /\ LinesOK' /\ Remembered' /\ ChangedByQuorum'  BY <1>1, SameDocs DEF ControlInv
<1>3. ReplicaOK' /\ Behind'  BY <1>1 DEF ControlInv, ReplicaOK, Behind, Ids, Running
<1>4. ReceiptsOK'  BY <1>1 DEF ControlInv, ReceiptsOK
<1>5. ServersOK' /\ OneWriter'  BY <1>1 DEF ControlInv, ServersOK, OneWriter, Running
<1>6. ClientOK'  BY <1>1 DEF ControlInv, ClientOK
<1>7. ~Running("copy") => PushAnswer(b, whole) # "HistoryConflict"
  <2> SUFFICES ASSUME ~Running("copy"), PushAnswer(b, whole) = "HistoryConflict" PROVE FALSE
    OBVIOUS
  <2>1. SameScope(b, Doc(1)) /\ seq(b) = CursorSeq /\ b.id # replica.cursor
    BY DEF PushAnswer, SameScope
  <2>2. Doc(1) = First /\ b.revision \in Nat  BY DocOne, DocFields DEF ControlInv
  <2>3. replica.cursor # Zero
    BY <2>1, <2>2 DEF CursorSeq, seq
  <2>4. PICK c \in docs : c.id = replica.cursor  BY <2>3 DEF ControlInv, ReplicaOK, Ids
  <2>5. c.revision \in Nat /\ c.revision = b.revision
    BY <2>1, <2>2, <2>3, <2>4, DocIs, DocFields DEF ControlInv, CursorSeq, seq
  <2>6. SameScope(b, c)
    BY <2>1, <2>2, <2>4 DEF ControlInv, ReplicaOK, SameScope
  <2>7. b = c  BY <2>5, <2>6 DEF ControlInv, OneWriter, LinesOK
  <2> QED BY <2>1, <2>4, <2>7
<1>8. OneBranch'  BY <1>1, <1>7 DEF ControlInv, OneBranch, Running
<1> QED BY <1>2, <1>3, <1>4, <1>5, <1>6, <1>8 DEF ControlInv

LEMMA HearAckPreserves ==
  ASSUME ControlInv, NEW s \in Names, NEW id \in acks, HearAck(s, id)
  PROVE  ControlInv'
<1> DEFINE b == servers[s].binding
<1>1. /\ docs' = docs /\ receipts' = receipts /\ said' = "" /\ replica' = replica /\ full' = full
      /\ acks' = acks /\ bootstrapped' = bootstrapped /\ seen' = seen /\ accepted' = accepted
      /\ gap' = gap /\ servers' = [servers EXCEPT ![s].acked = b.id]
      /\ Running(s) /\ Doc(id).id = b.id
  BY DEF HearAck, Acknowledges, replicavars, clientvars
<1>2. DocsOK' /\ LinesOK' /\ Remembered' /\ ChangedByQuorum'  BY <1>1, SameDocs DEF ControlInv
<1>3. b \in docs /\ SameScope(b, First) /\ b # Nothing /\ b.id \in Nat
  <2>1. b \in docs /\ SameScope(b, First)  BY <1>1 DEF ControlInv, ServersOK
  <2> QED BY <2>1, DocFields DEF ControlInv
<1>4. b.id \in acks
  <2>1. PICK a \in docs : a.id = id  BY DEF ControlInv, ReplicaOK, Ids
  <2>2. Doc(id) = a  BY <2>1, DocIs DEF ControlInv
  <2> QED BY <1>1, <2>1, <2>2
<1>5. /\ servers'[s] = [servers[s] EXCEPT !.acked = b.id]
      /\ servers' \in [Names -> [binding : docs \cup {Nothing}, acked : Nat]]
      /\ servers'[s].binding = b /\ servers'[s].acked = b.id
      /\ \A o \in Names : o # s => servers'[o] = servers[o]
  <2>1. servers[s] \in [binding : docs \cup {Nothing}, acked : Nat]  BY DEF ControlInv, ServersOK
  <2>2. servers'[s] = [servers[s] EXCEPT !.acked = b.id] /\ \A o \in Names : o # s => servers'[o] = servers[o]
    BY <1>1 DEF ControlInv, ServersOK
  <2>3. [servers[s] EXCEPT !.acked = b.id] \in [binding : docs \cup {Nothing}, acked : Nat]
    BY <1>3, <2>1
  <2>4. \A o \in Names : servers'[o] \in [binding : docs \cup {Nothing}, acked : Nat]
    BY <2>2, <2>3 DEF ControlInv, ServersOK
  <2>5. servers' \in [Names -> [binding : docs \cup {Nothing}, acked : Nat]]
    BY <1>1, <2>4 DEF ControlInv, ServersOK
  <2> QED BY <2>1, <2>2, <2>5
<1>6. \A o \in Names : Running(o)' <=> Running(o)
  <2>1. Running(s)'  BY <1>3, <1>5 DEF Running, Off
  <2> QED BY <1>1, <1>5, <2>1 DEF Running
<1>7. \A o \in Names : servers'[o].binding = servers[o].binding  BY <1>5
<1>8. ServersOK'
  <2>1. \A o \in Names : Running(o) =>
          /\ servers'[o].binding \in docs /\ SameScope(servers'[o].binding, First)
          /\ servers'[o].acked \in acks \cup {Zero}
    BY <1>3, <1>4, <1>5 DEF ControlInv, ServersOK
  <2>2. Running("service")'  BY <1>6 DEF ControlInv, ServersOK, Names
  <2> QED BY <1>1, <1>5, <1>6, <2>1, <2>2 DEF ServersOK
<1>9. Running("copy")' <=> Running("copy")  BY <1>6 DEF Names
<1>10. OneWriter'
  <2>1. servers'["service"].binding = servers["service"].binding  BY <1>7 DEF Names
  <2> QED BY <1>1, <1>9, <2>1 DEF ControlInv, OneWriter
<1>11. ReplicaOK'  BY <1>1 DEF ControlInv, ReplicaOK, Ids
<1>12. Behind'  BY <1>1, <1>9 DEF ControlInv, Behind
<1>13. ReceiptsOK'  BY <1>1 DEF ControlInv, ReceiptsOK
<1>14. ClientOK' /\ OneBranch'  BY <1>1 DEF ControlInv, ClientOK, OneBranch
<1> QED BY <1>2, <1>8, <1>10, <1>11, <1>12, <1>13, <1>14 DEF ControlInv

\* The clock of the servers is not looked at by anything else.
LEMMA WaitPreserves ==
  ASSUME ControlInv, Wait
  PROVE  ControlInv'
<1>1. /\ docs' = docs /\ servers' = servers /\ receipts' = receipts /\ said' = "" /\ full' = full
      /\ acks' = acks /\ bootstrapped' = bootstrapped /\ seen' = seen
      /\ accepted' = accepted /\ gap' = gap /\ replica' = replica
  BY DEF Wait, replicavars, clientvars
<1>2. DocsOK' /\ LinesOK' /\ Remembered' /\ ChangedByQuorum'  BY <1>1, SameDocs DEF ControlInv
<1>3. ReplicaOK' /\ Behind'  BY <1>1 DEF ControlInv, ReplicaOK, Behind, Ids, Running
<1>4. ReceiptsOK'  BY <1>1 DEF ControlInv, ReceiptsOK
<1>5. ServersOK' /\ OneWriter'  BY <1>1 DEF ControlInv, ServersOK, OneWriter, Running
<1>6. ClientOK' /\ OneBranch'  BY <1>1 DEF ControlInv, ClientOK, OneBranch
<1> QED BY <1>2, <1>3, <1>4, <1>5, <1>6 DEF ControlInv

LEMMA FirstSightPreserves ==
  ASSUME ControlInv, NEW b \in docs, FirstSight(b)
  PROVE  ControlInv'
<1>1. /\ docs' = docs /\ servers' = servers /\ receipts' = receipts /\ said' = "" /\ full' = full
      /\ acks' = acks /\ bootstrapped' = bootstrapped /\ replica' = replica
      /\ seen' = b /\ accepted' = {b} /\ gap' = gap
  BY DEF FirstSight, servervars, replicavars
<1>2. DocsOK' /\ LinesOK' /\ Remembered' /\ ChangedByQuorum'  BY <1>1, SameDocs DEF ControlInv
<1>3. ReplicaOK' /\ Behind'  BY <1>1 DEF ControlInv, ReplicaOK, Behind, Ids, Running
<1>4. ReceiptsOK'  BY <1>1 DEF ControlInv, ReceiptsOK
<1>5. ServersOK' /\ OneWriter'  BY <1>1 DEF ControlInv, ServersOK, OneWriter, Running
<1>6. b # Nothing /\ b.revision \in Nat  BY DocFields DEF ControlInv
<1>9. b.revision <= b.revision /\ b.revision # b.revision + 1  BY <1>6
<1>10. \A a \in accepted' : a = b  BY <1>1
<1>7. ClientOK'
  <2>1. accepted' \subseteq docs' /\ seen' # Nothing /\ seen' \in accepted'  BY <1>1, <1>6
  <2>2. \A a \in accepted' : a.revision <= seen'.revision  BY <1>1, <1>9, <1>10
  <2> QED BY <2>1, <2>2 DEF ClientOK
<1>8. OneBranch'
  <2>1. \A a, c \in accepted' :
          /\ a.authority_id = c.authority_id /\ a.epoch = c.epoch
          /\ a.revision = c.revision => a = c
          /\ c.revision = a.revision + 1 => c.previous = a.id
    BY <1>9, <1>10
  <2>2. said' \notin {"Fork", "HistoryConflict"}  BY <1>1
  <2> QED BY <2>1, <2>2 DEF OneBranch
<1> QED BY <1>2, <1>3, <1>4, <1>5, <1>7, <1>8 DEF ControlInv

\* continuity lets through only the next revision of the branch, or a gap; and
\* with one server at work it finds no fork.
LEMMA ReceivePreserves ==
  ASSUME ControlInv, NEW b \in docs, Receive(b)
  PROVE  ControlInv'
<1>1. /\ docs' = docs /\ servers' = servers /\ receipts' = receipts /\ full' = full
      /\ acks' = acks /\ bootstrapped' = bootstrapped /\ replica' = replica
      /\ seen # Nothing /\ said' = continuity(seen, b)
      /\ \/ /\ said' \in {"Adjacent", "Gap"} /\ seen' = b /\ accepted' = accepted \cup {b}
            /\ gap' = (gap \/ said' = "Gap")
         \/ /\ said' \notin {"Adjacent", "Gap"}
            /\ seen' = seen /\ accepted' = accepted /\ gap' = gap
  BY DEF Receive, servervars, replicavars, clientvars
<1>2. DocsOK' /\ LinesOK' /\ Remembered' /\ ChangedByQuorum'  BY <1>1, SameDocs DEF ControlInv
<1>3. ReplicaOK' /\ Behind'  BY <1>1 DEF ControlInv, ReplicaOK, Behind, Ids, Running
<1>4. ReceiptsOK'  BY <1>1 DEF ControlInv, ReceiptsOK
<1>5. ServersOK' /\ OneWriter'  BY <1>1 DEF ControlInv, ServersOK, OneWriter, Running
<1>6. /\ seen \in accepted /\ accepted \subseteq docs /\ seen \in docs
      /\ \A a \in accepted : a.revision <= seen.revision
  BY <1>1 DEF ControlInv, ClientOK
<1>7. b # Nothing /\ \A a \in docs : a.revision \in Nat  BY DocFields DEF ControlInv
<1>8. /\ said' \in {"Adjacent", "Gap"} => SameScope(seen, b) /\ b.revision > seen.revision
      /\ said' = "Adjacent" => b.revision = seen.revision + 1 /\ b.previous = seen.id
      /\ said' = "Fork" => /\ SameScope(seen, b)
                          /\ \/ b.revision = seen.revision /\ b.id # seen.id
                             \/ seen.revision + 1 = b.revision /\ b.previous # seen.id
      /\ said' # "HistoryConflict"
  BY <1>1, <1>6, <1>7 DEF continuity, SameScope
<1>9. ClientOK'
  <2>1. CASE said' \in {"Adjacent", "Gap"}
    <3>1. \A a \in accepted \cup {b} : a.revision <= b.revision  BY <2>1, <1>6, <1>7, <1>8
    <3> QED BY <2>1, <3>1, <1>1, <1>6, <1>7 DEF ClientOK
  <2>2. CASE said' \notin {"Adjacent", "Gap"}
    BY <2>2, <1>1 DEF ControlInv, ClientOK
  <2> QED BY <2>1, <2>2
<1>10. ~Running("copy")' => said' \notin {"Fork", "HistoryConflict"}
  <2> SUFFICES ASSUME ~Running("copy"), said' = "Fork" PROVE FALSE
    BY <1>1, <1>8 DEF Running
  <2>1. SameScope(seen, b)  BY <1>8
  <2>2. seen.id \in b.line \/ b.id \in seen.line  BY <1>6, <2>1 DEF ControlInv, OneWriter
  <2>3. CASE b.revision = seen.revision /\ b.id # seen.id
    BY <2>2, <2>3, <1>6 DEF ControlInv, LinesOK
  <2>4. CASE seen.revision + 1 = b.revision /\ b.previous # seen.id
    <3>1. b.revision > 0 /\ ~(b.revision <= seen.revision)  BY <2>4, <1>6, <1>7
    <3>2. seen.id \in b.line  BY <2>2, <3>1, <1>6 DEF ControlInv, LinesOK
    <3>3. PICK a \in docs : Follows(a, b)  BY <3>1 DEF ControlInv, LinesOK
    <3>4. seen.id # b.id  BY <2>4, <1>6, <1>7 DEF ControlInv, DocsOK
    <3>5. seen.id \in a.line  BY <3>2, <3>3, <3>4 DEF Follows
    <3>6. a.revision = seen.revision  BY <2>4, <3>3, <1>6, <1>7 DEF Follows
    <3>7. a = seen  BY <3>5, <3>6, <1>6 DEF ControlInv, LinesOK
    <3> QED BY <2>4, <3>3, <3>7 DEF Follows
  <2> QED BY <1>8, <2>3, <2>4
<1>11. OneBranch'
  <2> SUFFICES ASSUME ~gap', NEW a \in accepted', NEW c \in accepted' PROVE
        /\ a.authority_id = c.authority_id /\ a.epoch = c.epoch
        /\ a.revision = c.revision => a = c
        /\ c.revision = a.revision + 1 => c.previous = a.id
    BY <1>10 DEF OneBranch
  <2>1. ~gap  BY <1>1
  <2>2. \A x, y \in accepted :
          /\ x.authority_id = y.authority_id /\ x.epoch = y.epoch
          /\ x.revision = y.revision => x = y
          /\ y.revision = x.revision + 1 => y.previous = x.id
    BY <2>1 DEF ControlInv, OneBranch
  <2>3. CASE a \in accepted /\ c \in accepted  BY <2>2, <2>3
  <2>4. CASE a \notin accepted \/ c \notin accepted
    <3>1. said' = "Adjacent" /\ accepted' = accepted \cup {b}  BY <2>4, <1>1
    <3>2. /\ b.revision = seen.revision + 1 /\ b.previous = seen.id
          /\ b.authority_id = seen.authority_id /\ b.epoch = seen.epoch
      BY <3>1, <1>8 DEF SameScope
    <3>3. \A x \in accepted :
            /\ x.authority_id = b.authority_id /\ x.epoch = b.epoch
            /\ x.revision < b.revision /\ x.revision \in Nat
            /\ b.revision = x.revision + 1 => b.previous = x.id
      <4> TAKE x \in accepted
      <4>1. x.revision <= seen.revision /\ x.revision \in Nat /\ seen.revision \in Nat
        BY <1>6, <1>7
      <4>2. x.authority_id = seen.authority_id /\ x.epoch = seen.epoch
            /\ (x.revision = seen.revision => x = seen)
        BY <2>2, <1>6
      <4> QED BY <3>2, <4>1, <4>2
    <3>4. b.revision \in Nat  BY <1>7
    <3>5. CASE a = b /\ c = b  BY <3>4, <3>5
    <3>6. CASE a = b /\ c \in accepted  BY <3>3, <3>4, <3>6
    <3>7. CASE a \in accepted /\ c = b  BY <3>3, <3>4, <3>7
    <3> QED BY <2>4, <3>1, <3>5, <3>6, <3>7
  <2> QED BY <2>3, <2>4
<1> QED BY <1>2, <1>3, <1>4, <1>5, <1>9, <1>11 DEF ControlInv

LEMMA ControlInitEstablishes ==
  ASSUME ControlInit
  PROVE  ControlInv
<1>1. /\ docs = Created /\ receipts = {} /\ replica = [stored |-> Zero, cursor |-> Zero, taking |-> Zero]
      /\ full = {} /\ acks = {} /\ bootstrapped = FALSE
      /\ seen = Nothing /\ accepted = {} /\ gap = FALSE /\ said = ""
      /\ servers = [s \in Names |-> IF s = "service" THEN [Off EXCEPT !.binding = Doc(1)] ELSE Off]
  BY DEF ControlInit
<1>2. DocsOK
  <2>1. {b.id : b \in Created} = 1 .. Cardinality(Created)  BY ControlAssumption
  <2>2. \A b \in Created : b.id \in 1 .. Cardinality(Created)  BY <2>1
  <2> QED BY <1>1, <2>2, ControlAssumption DEF DocsOK
<1>3. /\ \A b \in docs : b.revision = 0 /\ b.line = {b.id}
      /\ \A a, b \in docs : (a.id = b.id \/ SameScope(a, b)) => a = b
  BY <1>1, ControlAssumption
<1>4. LinesOK
  <2>1. \A a, b \in docs : a.id \in b.line => a = b  BY <1>3
  <2>2. \A b \in docs : b.id \in b.line /\ b.line \subseteq {a.id : a \in docs} /\ ~(b.revision > 0)
    BY <1>3
  <2>3. \A b \in docs : SameScope(b, b) /\ b.revision <= b.revision  BY <1>3 DEF SameScope
  <2> QED BY <2>1, <2>2, <2>3 DEF LinesOK
<1>5. Remembered /\ ChangedByQuorum  BY <1>3 DEF Remembered, ChangedByQuorum
<1>6. First \in docs /\ Doc(1) = First /\ First # Nothing /\ First.line = {1}
  <2>1. First \in docs /\ Doc(1) = First  BY <1>2, DocOne
  <2> QED BY <2>1, <1>2, <1>3, DocFields, FirstCreated
<1>7. /\ servers["service"].binding = First /\ servers["service"].acked = 0
      /\ servers["copy"] = Off
      /\ servers \in [Names -> [binding : docs \cup {Nothing}, acked : Nat]]
  <2>1. Off \in [binding : docs \cup {Nothing}, acked : Nat] /\ Off.acked = 0
    BY ControlAssumption DEF Off
  <2> DEFINE N == [Off EXCEPT !.binding = Doc(1)]
  <2>2. N \in [binding : docs \cup {Nothing}, acked : Nat] /\ N.binding = First /\ N.acked = 0
    BY <1>6, ControlAssumption DEF Off
  <2> HIDE DEF N
  <2>3. servers = [s \in Names |-> IF s = "service" THEN N ELSE Off]  BY <1>1 DEF N
  <2> QED BY <2>1, <2>2, <2>3 DEF Names
<1>8. Running("service") /\ ~Running("copy")  BY <1>6, <1>7 DEF Running, Off
<1>9. ServersOK
  BY <1>1, <1>6, <1>7, <1>8, ControlAssumption DEF ServersOK, Names, SameScope
<1>10. OneWriter  BY <1>3, <1>6, <1>7 DEF OneWriter
<1>11. ReplicaOK
  <2>1. \A b \in docs : b.id # Zero  BY <1>2, DocFields, ControlAssumption
  <2> QED BY <1>1, <2>1, ControlAssumption DEF ReplicaOK
<1>12. Behind
  <2>1. \A b \in docs : b.id # Zero  BY <1>2, DocFields, ControlAssumption
  <2> QED BY <1>1, <2>1 DEF Behind
<1>13. ReceiptsOK /\ ClientOK /\ OneBranch  BY <1>1 DEF ReceiptsOK, ClientOK, OneBranch
<1> QED BY <1>2, <1>4, <1>5, <1>9, <1>10, <1>11, <1>12, <1>13 DEF ControlInv

LEMMA ControlStep ==
  ASSUME ControlInv, ServerNext \/ ReplicaNext \/ ClientNext
  PROVE  ControlInv'
<1>1. ASSUME NEW s \in Names, NEW r \in Intents, NEW keys \in KeyLists, Execute(s, r, keys)
      PROVE  ControlInv'
  BY <1>1, ExecutePreserves
<1>2. ASSUME NEW s \in Names, NEW r \in Intents, NEW keys \in KeyLists, Replay(s, r, keys)
      PROVE  ControlInv'
  BY <1>2, ReplayPreserves
<1>3. ASSUME NEW b \in docs, RestoreBackup(b) PROVE ControlInv'  BY <1>3, RestorePreserves
<1>4. CASE Wait  BY <1>4, WaitPreserves
<1>5. CASE ServerNext  BY <1>1, <1>2, <1>3, <1>4, <1>5 DEF ServerNext
<1>6. \A b \in Pushed : b \in docs  BY DEF Pushed
<1>7. \A id \in full : Doc(id) \in docs
  <2> TAKE id \in full
  <2>1. PICK b \in docs : b.id = id  BY DEF ControlInv, ReplicaOK, Ids
  <2> QED BY <2>1, DocIs DEF ControlInv
<1>8. ASSUME NEW b \in docs, NEW whole \in BOOLEAN, StoreSnapshot(b, whole) PROVE ControlInv'
  BY <1>8, StorePreserves
<1>9. ASSUME NEW b \in docs, NEW whole \in BOOLEAN, RefusePush(b, whole) PROVE ControlInv'
  BY <1>9, RefusePushPreserves
<1>10. ASSUME NEW s \in Names, NEW b \in docs, SendWhole(s, b) PROVE ControlInv'
  BY <1>10, SendWholePreserves
<1>11. ASSUME NEW s \in Names, NEW id \in acks, HearAck(s, id) PROVE ControlInv'
  BY <1>11, HearAckPreserves
<1>12. CASE ReplicaNext
  BY <1>6, <1>7, <1>8, <1>9, <1>10, <1>11, <1>12, MoveCursorPreserves, InterruptPreserves
  DEF ReplicaNext
<1>13. ASSUME NEW b \in docs, FirstSight(b) PROVE ControlInv'  BY <1>13, FirstSightPreserves
<1>14. ASSUME NEW b \in docs, Receive(b) PROVE ControlInv'  BY <1>14, ReceivePreserves
<1>15. CASE ClientNext  BY <1>13, <1>14, <1>15 DEF ClientNext
<1> QED BY <1>5, <1>12, <1>15

LEMMA ControlStutter ==
  ASSUME ControlInv, UNCHANGED controlvars
  PROVE  ControlInv'
<1>1. /\ docs' = docs /\ servers' = servers /\ receipts' = receipts /\ said' = said /\ full' = full
      /\ acks' = acks /\ bootstrapped' = bootstrapped /\ seen' = seen
      /\ accepted' = accepted /\ gap' = gap /\ replica' = replica
  BY DEF controlvars, servervars, replicavars, clientvars
<1>2. DocsOK' /\ LinesOK' /\ Remembered' /\ ChangedByQuorum'  BY <1>1, SameDocs DEF ControlInv
<1>3. ReplicaOK' /\ Behind'  BY <1>1 DEF ControlInv, ReplicaOK, Behind, Ids, Running
<1>4. ReceiptsOK'  BY <1>1 DEF ControlInv, ReceiptsOK
<1>5. ServersOK' /\ OneWriter'  BY <1>1 DEF ControlInv, ServersOK, OneWriter, Running
<1>6. ClientOK' /\ OneBranch'  BY <1>1 DEF ControlInv, ClientOK, OneBranch, Running
<1> QED BY <1>2, <1>3, <1>4, <1>5, <1>6 DEF ControlInv

-------------------------------------------------------------------------------
(* The theorems. *)

\* The invariant of the transfers and of a server under control.
THEOREM ControlInvariant == Spec => []ControlSystemInv
<1>1. Init => ControlSystemInv
  <2> SUFFICES ASSUME Init PROVE ControlSystemInv  OBVIOUS
  <2>1. ChainInv  BY ChainInitEstablishes DEF Init
  <2>2. CASE part = "transfers" /\ AtRest  BY <2>1, <2>2 DEF ControlSystemInv
  <2>3. CASE part \in {"replica", "client"} /\ ControlInit
    <3>1. ControlInv  BY <2>3, ControlInitEstablishes
    <3> QED BY <2>1, <2>3, <3>1 DEF ControlSystemInv
  <2> QED BY <2>2, <2>3 DEF Init
<1>2. ControlSystemInv /\ [Next]_<<part, chainvars, controlvars>> => ControlSystemInv'
  <2> SUFFICES ASSUME ControlSystemInv, [Next]_<<part, chainvars, controlvars>>
               PROVE  ControlSystemInv'
    OBVIOUS
  <2>1. CASE part = "transfers" /\ ChainNext /\ UNCHANGED <<part, controlvars>>
    <3>1. ChainInv'  BY <2>1, ChainStep DEF ControlSystemInv
    <3>2. AtRest'
      BY <2>1 DEF ControlSystemInv, AtRest, controlvars, servervars, replicavars, clientvars
    <3> QED BY <2>1, <3>1, <3>2 DEF ControlSystemInv
  <2>2. CASE part # "transfers" /\ (ServerNext \/ ReplicaNext \/ ClientNext) /\ UNCHANGED <<part, chainvars>>
    <3>1. ChainInv'  BY <2>2, ChainStutter DEF ControlSystemInv
    <3>2. ControlInv'  BY <2>2, ControlStep DEF ControlSystemInv
    <3> QED BY <2>2, <3>1, <3>2 DEF ControlSystemInv
  <2>3. CASE UNCHANGED <<part, chainvars, controlvars>>
    <3>1. ChainInv'  BY <2>3, ChainStutter DEF ControlSystemInv
    <3>2. CASE part = "transfers"
      <4>1. AtRest'
        BY <2>3, <3>2 DEF ControlSystemInv, AtRest, controlvars, servervars, replicavars, clientvars
      <4> QED BY <2>3, <3>1, <3>2, <4>1 DEF ControlSystemInv
    <3>3. CASE part # "transfers"
      <4>1. ControlInv'  BY <2>3, <3>3, ControlStutter DEF ControlSystemInv
      <4> QED BY <2>3, <3>1, <3>3, <4>1 DEF ControlSystemInv
    <3> QED BY <3>2, <3>3
  <2> QED BY <2>1, <2>2, <2>3 DEF Next
<1> QED BY <1>1, <1>2, PTL DEF Spec

\* Clients of verify_chain that started from one binding never trust two servers
\* in an epoch, for any rosters that demand majorities, any certificates, any
\* number of clients and any order of signing, walking and restarting.
THEOREM NoTwoServers == Spec => []NoSplitBrain
<1>1. ControlSystemInv => NoSplitBrain
  <2> SUFFICES ASSUME ChainInv, NEW c \in Clients, NEW d \in Clients, Trusting(c), Trusting(d),
                      client[c].first = client[d].first, AllMajority(client[c].first),
                      client[c].binding.epoch = client[d].binding.epoch
               PROVE  client[c].binding = client[d].binding
    BY DEF ControlSystemInv, NoSplitBrain, AllMajority
  <2>1. PICK steps \in SUBSET (Firsts \X Known) : Walked(steps)  BY DEF ChainInv
  <2>2. PICK p \in steps : p[1] = client[c].first /\ p[2] = client[c].binding
    BY <2>1 DEF Walked
  <2>3. PICK q \in steps : q[1] = client[d].first /\ q[2] = client[d].binding
    BY <2>1 DEF Walked
  <2> QED BY <2>1, <2>2, <2>3 DEF Walked
<1> QED BY <1>1, ControlInvariant, PTL

\* Nothing changes without a quorum of those in office, neither the server that
\* clients trust nor a revision of its binding, and no intent is executed twice.
THEOREM ChangesByQuorum == Spec => []ByQuorum
<1>1. ControlSystemInv => ByQuorum
  <2> SUFFICES ASSUME ControlSystemInv PROVE ByQuorum  OBVIOUS
  <2>1. TrustByQuorum
    <3> SUFFICES ASSUME NEW c \in Clients, Trusting(c)
                 PROVE  LET call == client[c]
                            keys == call.previous_keys
                        IN  /\ Len(keys) = call.binding.epoch - call.first.epoch
                            /\ call.binding.authority_id = call.first.authority_id
                            /\ keys # <<>> =>
                                 /\ keys[1] = Anchor
                                 /\ \E b \in Known, t \in Bodies :
                                      /\ t.binding = call.binding /\ t.from_epoch = b.epoch
                                      /\ t.from_lease = b.lease_public /\ t.from_lease = keys[Len(keys)]
                                      /\ b.threshold >= 1 /\ Quorum(b, t)
      BY DEF TrustByQuorum, Known
    <3>1. CallOK(client[c])  BY DEF ControlSystemInv, ChainInv
    <3> QED BY <3>1 DEF CallOK, Certified
  <2>2. CASE part = "transfers"
    <3>1. \A b \in docs : b.revision = 0
      BY <2>2, ControlAssumption DEF ControlSystemInv, AtRest
    <3>2. ChangedByQuorum  BY <3>1 DEF ChangedByQuorum
    <3> QED BY <2>1, <3>2 DEF ByQuorum
  <2>3. CASE part # "transfers"
    BY <2>1, <2>3 DEF ControlSystemInv, ControlInv, ByQuorum
  <2> QED BY <2>2, <2>3
<1> QED BY <1>1, ControlInvariant, PTL

\* A receipt of success under "Witnessed" is true of what the replica stores,
\* whatever is interrupted, repeated, late or lost, and for any intents.
THEOREM ReceiptsTrue == Spec => []WitnessedMeansStored
<1>1. ControlSystemInv => WitnessedMeansStored
  <2> SUFFICES ASSUME ControlSystemInv PROVE WitnessedMeansStored  OBVIOUS
  <2>1. CASE part = "transfers"
    BY <2>1 DEF ControlSystemInv, AtRest, WitnessedMeansStored
  <2>2. CASE part # "transfers"
    <3>1. ControlInv  BY <2>2 DEF ControlSystemInv
    <3> SUFFICES ASSUME ~bootstrapped \/ ~Running("copy"), NEW r \in receipts,
                        r.outcome = "Committed", r.durability = "Witnessed"
                 PROVE  /\ replica.stored # Zero /\ r.commit \in Doc(replica.stored).line
                        /\ \A q \in receipts :
                             q.outcome = "Committed" /\ q.durability = "Witnessed" /\ q.revision = r.revision
                             => q.commit = r.commit
      BY DEF WitnessedMeansStored
    <3>2. PICK h \in docs, b \in docs :
            h.id \in acks /\ b.id \in h.line /\ r.commit = b.id /\ r.revision = b.revision
      BY <3>1 DEF ControlInv, ReceiptsOK
    <3>3. replica.cursor # Zero /\ replica.stored # Zero
      BY <3>1, <3>2 DEF ControlInv, Behind
    <3>4. PICK c \in docs, s \in docs : c.id = replica.cursor /\ s.id = replica.stored
      BY <3>1, <3>3 DEF ControlInv, ReplicaOK, Ids
    <3>5. acks \subseteq c.line /\ c.id \in s.line
      BY <3>1, <3>3, <3>4 DEF ControlInv, Behind
    <3>6. c.line \subseteq s.line  BY <3>1, <3>5 DEF ControlInv, LinesOK
    <3>7. \A a \in docs : a.id \in acks => a.line \subseteq s.line
      BY <3>1, <3>5, <3>6 DEF ControlInv, LinesOK
    <3>8. b.id \in s.line  BY <3>2, <3>7
    <3>9. Doc(replica.stored) = s  BY <3>1, <3>4, DocIs DEF ControlInv
    <3>10. ASSUME NEW q \in receipts, q.outcome = "Committed", q.durability = "Witnessed",
                  q.revision = r.revision
           PROVE  q.commit = r.commit
      <4>1. PICK g \in docs, a \in docs :
              g.id \in acks /\ a.id \in g.line /\ q.commit = a.id /\ q.revision = a.revision
        BY <3>1, <3>10 DEF ControlInv, ReceiptsOK
      <4>2. a.id \in s.line  BY <4>1, <3>7
      <4>3. a.revision = b.revision /\ a.revision \in Nat  BY <4>1, <3>1, <3>2, <3>10, DocFields DEF ControlInv
      <4>4. a.id \in b.line  BY <4>2, <4>3, <3>1, <3>8 DEF ControlInv, LinesOK
      <4>5. a = b  BY <4>3, <4>4, <3>1 DEF ControlInv, LinesOK
      <4> QED BY <4>1, <4>5, <3>2
    <3> QED BY <3>2, <3>3, <3>8, <3>9, <3>10
  <2> QED BY <2>1, <2>2
<1> QED BY <1>1, ControlInvariant, PTL

\* A client that skipped no revision has followed one branch, and a server
\* without a copy is never said to have forked.
THEOREM BranchFollowed == Spec => []OneBranch
<1>1. ControlSystemInv => OneBranch
  BY DEF ControlSystemInv, ControlInv, AtRest, OneBranch
<1> QED BY <1>1, ControlInvariant, PTL

===============================================================================

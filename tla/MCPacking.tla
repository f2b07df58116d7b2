------------------------------- MODULE MCPacking -------------------------------
(* Instances of Packing for TLC. *)
EXTENDS Packing, TLC

CONSTANTS
  c1, c2,    \* claim codes
  Texts      \* what documents say

ToNobody == [mode |-> "None", key |-> None]
ToIdentity(who) == [mode |-> "Identity", key |-> PublicKey("X25519", who)]
ToHybrid == [mode |-> "Hybrid", key |-> PublicKey("XWing", "r1")]
ToHardwareHybrid(who) == [mode |-> "HardwareHybrid", key |-> PublicKey("MlKem768P256", who)]
ToClaim(code) == [mode |-> "Claim", key |-> code]

\* Rules of every kind, two of them on actions this client does not know.
RichPolicy ==
  [actions |-> {"View", "Print"}, validity |-> FromFirstOpen(60), max_opens |-> None,
   network |-> LeaseNetwork(5, 7), min_binding |-> Hardware,
   action_binding |-> [[a \in Action |-> Software] EXCEPT !["Print"] = HardwareAttested],
   watermark |-> FALSE, unknown_actions |-> {0, 9}]

\* No opens, in a window of time.
ClosedPolicy ==
  [deny_all EXCEPT !.actions = {"View"}, !.validity = Window(1, 2), !.max_opens = 0]

Request(recipient, chunk_size, policy, coauthors) ==
  [original_name |-> "n1", policy |-> policy, chunk_size |-> chunk_size, org_id |-> "org",
   recipient |-> recipient, coauthors |-> coauthors]

TwoOfTwo == [threshold |-> 2, keys |-> <<"k1", "k2">>]
TwoOfOne == [threshold |-> 2, keys |-> <<"k1">>]

\* Every kind of recipient, two of the kinds twice, the second time with
\* another chunk size, policy, roster or code; bytes that are no key; an illegal
\* chunk size and a roster that cannot meet its threshold.
SomeRequests ==
  {Request(ToNobody, 4, RichPolicy, None),
   Request(ToIdentity("r1"), 4, RichPolicy, None),
   Request(ToIdentity("r1"), 8, ClosedPolicy, TwoOfTwo),
   Request(ToHybrid, 4, RichPolicy, None),
   Request(ToHardwareHybrid("r1"), 4, RichPolicy, None),
   Request(ToClaim(c1), 4, RichPolicy, None),
   Request(ToClaim(c2), 4, ClosedPolicy, None),
   Request(ToHardwareHybrid(None), 4, RichPolicy, None),
   Request(ToNobody, 3, RichPolicy, TwoOfOne)}

\* Documents of one length; which is which makes no difference.
SomeDocuments == {<<"doc", 3, text>> : text \in Texts}
TextSymmetry == Permutations(Texts)

Machine(hardware_hybrid, hybrid, tpm) ==
  [author |-> "author", authority_sealing |-> PublicKey("X25519", "server"),
   authority_lease_verify |-> "lease", device |-> PublicKey("X25519", "device"),
   device_hardware_hybrid |-> hardware_hybrid, device_hybrid |-> hybrid, device_tpm |-> tpm]

\* A software device without hybrid keys, and one with everything.
SomeMachines ==
  {Machine(None, None, None),
   Machine(PublicKey("MlKem768P256", "device"), PublicKey("XWing", "device"),
           PublicKey("P256", "device"))}

===============================================================================

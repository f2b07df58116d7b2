------------------------------- MODULE MCControl -------------------------------
(* An instance of ControlSystem: a chain of transfers, with three           *)
(* controllers of whom two must sign, two rival successors and a server     *)
(* after one of them; and a server under control with a copy of it.         *)
EXTENDS ControlSystem, TLC

Server(epoch, key) ==
  [authority_id |-> 1, epoch |-> epoch, lease_public |-> key, signer |-> key,
   roster |-> {1, 2, 3}, threshold |-> 2]

Original == Server(0, 10)
Left     == [Server(1, 11) EXCEPT !.roster = {1, 2}]
Right    == Server(1, 12)

\* Not signed by the anchor, and a quorum nobody can reach.
MCFirsts == {Original, Server(0, 11), [Original EXCEPT !.threshold = 4]}

Certificate(from, to, until) ==
  [authority_id |-> 1, from_epoch |-> from.epoch, to_epoch |-> from.epoch + 1,
   from_lease |-> from.lease_public, transition_at |-> 1, old_leases |-> "Honour",
   issued_at |-> -1, expires_at |-> until, binding |-> to]

\* Both rivals, the second epoch of the left one, and a second epoch that the
\* original would give away itself.
MCBodies ==
  {Certificate(Original, Left, 1), Certificate(Original, Right, 0),
   Certificate(Left, Server(2, 13), 1),
   [Certificate(Left, Server(2, 14), 1) EXCEPT !.from_lease = 10]}

MCKeyLists == {<<1>>, <<1, 1>>, <<1, 2>>, <<2, 1>>, <<1, 3>>, <<2, 3>>, <<1, 2, 3>>}

Symmetry == Permutations(Clients)

Binding(id, epoch) ==
  [id |-> id, authority_id |-> 1, epoch |-> epoch, revision |-> 0, previous |-> 0,
   operation_id |-> 0, roster |-> {1, 2}, threshold |-> 2, durability |-> "Witnessed",
   status |-> "Serving", kept |-> <<>>, line |-> {id}]

MCCreated == {Binding(1, 1), Binding(2, 2)}

Plain(kind) ==
  [kind |-> kind, urls |-> <<>>, durability |-> "Local", keys |-> <<>>, threshold |-> 0,
   status |-> "Serving", more |-> "none"]

Intent(op, revision, payload) ==
  [authority_id |-> 1, epoch |-> 1, operation_id |-> op, expected_revision |-> revision,
   issued_at |-> 0, expires_at |-> 1, payload |-> payload, more |-> "none"]

Widen  == Intent(1, 0, [Plain("SetRoster") EXCEPT !.keys = <<1, 2, 3>>, !.threshold = 2])
Other  == Intent(1, 1, [Plain("SetEndpoints") EXCEPT !.urls = <<"a", "b">>])
Lower  == Intent(2, 0, Plain("SetDurability"))
Raise  == Intent(3, 1, [Plain("SetDurability") EXCEPT !.durability = "Witnessed"])
Stop   == [Intent(4, 1, [Plain("Decommission") EXCEPT !.status = "Stopped"])
             EXCEPT !.expires_at = 2, !.issued_at = 1]

\* Refused: nobody could reach the quorum, an address twice, a term too long,
\* another epoch, a status that is not for controllers, a field not known.
Refusable ==
  {Intent(5, 0, [Plain("SetRoster") EXCEPT !.keys = <<1>>, !.threshold = 2]),
   Intent(6, 0, [Plain("SetEndpoints") EXCEPT !.urls = <<"a", "a">>]),
   [Intent(7, 0, Plain("AddAuthor")) EXCEPT !.expires_at = 3],
   [Intent(8, 0, Plain("RemoveAuthor")) EXCEPT !.epoch = 2],
   Intent(9, 0, Plain("Decommission")),
   [Intent(10, 0, Plain("AddAuthor")) EXCEPT !.more = "critical"]}

\* The last is signed by one controller only.
Alone == Intent(11, 0, Plain("AddAuthor"))

MCIntents == {Widen, Other, Lower, Raise, Stop, Alone} \cup Refusable

MCSignedBy ==
  [r \in MCIntents |-> IF r = Alone THEN {1} ELSE IF r = Raise THEN {1, 3} ELSE {1, 2}]

================================================================================

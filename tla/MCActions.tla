------------------------------ MODULE MCActions ------------------------------
(* Two instances that share nothing: the walk of a chain, with the author   *)
(* and three holders (their key and fingerprint have the same number), two  *)
(* grants and two files; and two doors at work, the second one under the    *)
(* first.                                                                   *)
EXTENDS DelegationChain, ActionDoor

VARIABLE part

Tree(parts) == [rooted |-> FALSE, doubled |-> FALSE, parts |-> parts]
Http(parts) == [rooted |-> TRUE, doubled |-> FALSE, parts |-> parts]

Rule(limit, uses, confirm, delegable) ==
  [kind |-> limit.kind, constraint |-> limit, max_uses |-> uses,
   confirm |-> confirm, delegable |-> delegable]

Remove(path) == [kind |-> "TreeRemove", prefix |-> path]
Rename(from, to) == [kind |-> "TreeRename", from_prefix |-> from, to_prefix |-> to]
Push(branch) == [kind |-> "GitPush", remote |-> "origin", branch |-> branch]
Call(methods, path, secret) ==
  [kind |-> "HttpRequest", host |-> "host", methods |-> methods,
   path_prefix |-> path, secret_ref |-> secret]

SrcRule   == Rule(Remove(Tree(<<"src">>)), 2, FALSE, TRUE)
DocRule   == Rule(Remove(Tree(<<"src", "doc">>)), 0, FALSE, TRUE)
OtherRule == Rule(Remove(Tree(<<"doc">>)), 1, FALSE, TRUE)
AskRule   == Rule(Push("work"), 1, TRUE, TRUE)
PushRule  == Rule(Push("work"), 1, FALSE, TRUE)
MoveRule  == Rule(Rename(Tree(<<"src">>), Tree(<<"src", "doc">>)), 1, FALSE, FALSE)
CallRule  == Rule(Call({"Get", "Put"}, Http(<<>>), "TOKEN"), 0, FALSE, TRUE)
GetRule   == Rule(Call({"Get"}, Http(<<"doc">>), NoSecret), 1, FALSE, TRUE)
KeyRule   == Rule(Call({"Get"}, Http(<<"doc">>), "OTHER"), 1, FALSE, TRUE)
\* A kind that belies its constraint, and a prefix that climbs out.
BeliedRule == [SrcRule EXCEPT !.kind = "GitPush"]
ClimbRule  == Rule(Remove(Tree(<<"src", "..">>)), 1, FALSE, TRUE)

TreePaths == {Tree(<<"src">>), Tree(<<"doc">>), Tree(<<"src", "doc">>), Tree(<<"src", "..">>)}
HttpPaths == {Http(<<>>), Http(<<"doc">>), Http(<<"src">>)}

MCRequests ==
       {[kind |-> "TreeRemove", path |-> p] : p \in TreePaths}
  \cup {[kind |-> "TreeRename", from |-> p, to |-> q] : p, q \in TreePaths}
  \cup {[kind |-> "GitPush", remote |-> "origin", branch |-> b] : b \in {"work", "main"}}
  \cup {[kind |-> "HttpRequest", host |-> "host", method |-> m, path |-> p, body_len |-> n] :
          m \in {"Get", "Put"}, p \in HttpPaths, n \in {1, 2}}

Grant(signer, files, until, depth) ==
  [signer |-> signer, parses |-> TRUE, author_key |-> signer, grant_id |-> 1,
   door_fpr |-> 1, door_verify |-> 1, entries |-> files,
   issued_at |-> 1, expires_at |-> until, max_depth |-> depth,
   tightening |-> IF files = {1} THEN Absent ELSE 7]

MCGrants ==
       {Grant(0, files, until, depth) : files \in {{1}, {1, 2}}, until \in {1, 2}, depth \in 0 .. 3}
  \cup {Grant(1, {1}, 2, 1), Grant(0, {1}, 0, 1), Grant(0, {1, 2, 3}, 2, 1)}

Acts(signer, id, from, until, rules) ==
  [signer |-> signer, parses |-> TRUE, author_key |-> signer, grant_id |-> id,
   rules |-> rules, issued_at |-> from, expires_at |-> until]

MCActionGrants ==
       {Acts(0, 1, from, until, <<SrcRule, CallRule>>) : from \in {1, 2}, until \in {1, 2}}
  \cup {Acts(0, 1, 1, 1, <<AskRule, PushRule>>), Acts(0, 1, 1, 1, <<AskRule, MoveRule>>),
        Acts(0, 2, 1, 1, <<SrcRule>>), Acts(1, 1, 1, 1, <<SrcRule>>),
        Acts(0, 1, 1, 1, <<BeliedRule>>), Acts(0, 1, 1, 1, <<ClimbRule>>)}

Link(parent, child, signer, id, files, until, depth, limit, rules) ==
  [signer |-> signer, parses |-> TRUE, grant_id |-> id, parent_fpr |-> parent,
   child_fpr |-> child, child_verify |-> child, entries |-> files,
   expires_at |-> until, depth |-> depth, tightening |-> limit, actions |-> rules]

Offers ==
  {<<>>, <<DocRule>>, <<OtherRule>>, <<GetRule, SrcRule>>, <<KeyRule>>,
   <<PushRule>>, <<MoveRule>>, <<ClimbRule>>}

\* Holder 1 delegates under grant 1 to 2 and 3, holder 2 under grant 1 to 3;
\* holder 3 under grant 2 only, and under the name of holder 1.
MCLinks ==
       {Link(pair[1], pair[2], pair[1], 1, files, until, depth, 6 + pair[2], rules) :
          pair \in {<<1, 2>>, <<1, 3>>, <<2, 3>>}, files \in {{1}, {1, 2}},
          until \in {1, 2}, depth \in 0 .. 2, rules \in Offers}
  \cup {Link(1, 2, 1, 1, {1}, 0, 0, Absent, <<>>), Link(1, 3, 1, 1, {1}, 1, 1, Absent, <<BeliedRule>>),
        Link(3, 2, 3, 2, {1}, 1, 0, Absent, <<>>), Link(1, 2, 3, 1, {1}, 1, 0, Absent, <<>>)}

-------------------------------------------------------------------------------
(* The doors: both may remove under src, the first also under doc with the   *)
(* owner's word.                                                             *)

MCRules ==
  <<{SrcRule, Rule(Remove(Tree(<<"doc">>)), 2, TRUE, TRUE)},
    {Rule(Remove(Tree(<<"src", "doc">>)), 1, FALSE, FALSE)}>>
MCAbove == <<{}, {1}>>

AskFor(door, nonce, parts) ==
  [grant_id |-> 1, door_fpr |-> door, kind |-> "TreeRemove",
   args |-> [kind |-> "TreeRemove", path |-> Tree(parts)], nonce |-> nonce, more |-> "none"]

\* Two with the same nonce; the second door may not make what the first may.
MCAsks ==
  {AskFor(1, 1, <<"doc">>), AskFor(1, 1, <<"doc", "src">>), AskFor(1, 2, <<"src">>),
   AskFor(2, 3, <<"src", "doc">>)}

YesTo(seq, key) ==
  [seq |-> seq, grant_id |-> 1, door_fpr |-> 1, approve |-> TRUE, author_key |-> key]

\* Signed by a door, and by the owner about access to a file.
MCForeign ==
  {Signed("ActionDecision", 1, YesTo(1, 0), "none"), Signed("Grant", 0, YesTo(1, 0), "none")}

ChainAtRest == Init /\ now = 0 /\ action_grant = Absent /\ grant = Grant(0, {1}, 1, 0)

MCInit ==
  \/ part = "walk" /\ Init /\ DoorInit
  \/ part = "doors" /\ ChainAtRest /\ DoorInit

MCNext ==
  \/ part = "walk" /\ Next /\ UNCHANGED <<part, doorvars>>
  \/ part = "doors" /\ DoorNext /\ UNCHANGED <<part, vars>>

MCSpec == MCInit /\ [][MCNext]_<<part, vars, doorvars>>

===============================================================================

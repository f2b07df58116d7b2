-------------------------------- MODULE MCOrders --------------------------------
(* An instance of Orders: an author, a coauthor and files f1 and f2.      *)
EXTENDS Orders

\* The second client is newer than the server.
MCClient == [k \in Keys |-> IF k = "b" THEN "optional" ELSE "none"]

MCFounders == {<<>>, <<"a", "b">>}

Command(kind, fields) == [file_id |-> "f1", kind |-> kind, fields |-> fields]
Everywhere(kind, fields) == [file_id |-> NoFile, kind |-> kind, fields |-> fields]
None == [x \in {} |-> x]
Limit(n) == Command("SetLimits", [max_devices |-> n])
Roster(kind, keys, n) == Command(kind, [keys |-> keys, threshold |-> n])

Device(p) == device_fpr("x25519", p)
Bequest(key, file, p) ==
  Signed("GRANT", key,
         Decision(HEIR_SEQ, file, Device(p), TRUE, Share("x25519", p), "a"), "none")
HeirBy(key, file) ==
  Command("SetHeir", [heir_mode |-> "Open", silence_seconds |-> 1,
                      bequests |-> <<Bequest(key, file, "d")>>])
Heir(file) == HeirBy("a", file)

Ballot(yes) == Command("ApproveDevice", [device_fpr |-> Device("d"), approve |-> yes])

By(key, commands) == {<<key, c>> : c \in commands}

\* Limits and the coauthors that agree to them, with rosters nobody may set.
Quorum ==
  By("a", {Limit(1), Limit(2), Roster("SetCoauthors", <<"a", "b">>, 1),
           Roster("SetCoauthors", <<"b", "b">>, 2), Roster("SetCoauthors", <<"a">>, 2)})
  \cup By("b", {Limit(1), Limit(2), Roster("SetCoauthors", <<"a", "b">>, 1)})
\* Approvers and their votes.
Approval ==
  By("a", {Roster("SetApprovers", <<"b">>, 1), Roster("SetApprovers", <<>>, 0)})
  \cup By("b", {Roster("SetApprovers", <<"b">>, 1), Ballot(TRUE), Ballot(FALSE)})
\* The author's silence.
Silence ==
  By("a", {Heir("f1"), Heir("f2"), Command("SetHeir", [heir_mode |-> "Off"]),
           Command("SetHeir", [heir_mode |-> "Close", silence_seconds |-> 2]),
           Everywhere("Alive", None)})
  \cup By("b", {Heir("f1"), HeirBy("b", "f1")})
\* Panic, and a file packed after it.
Panic ==
  By("a", {Everywhere("Freeze", [frozen |-> on]) : on \in BOOLEAN} \cup
          {[file_id |-> "f2", kind |-> "Register", fields |-> [max_grants |-> 1]],
           Command("Revoke", None), Everywhere("RevokeGrant", [grant_id |-> 1])})
\* What is set and not shown in the standing.
Quiet ==
  By("a", {Command("ReplaceDevice", [old_devices |-> <<"d">>, new_devices |-> <<"e">>]),
           Command("ReplaceDevice", [old_devices |-> <<"e">>, new_devices |-> <<"e">>]),
           Command("SetRule", [rule |-> "r"]),
           Everywhere("WatchAuthor", [authority_key |-> 1])})

MCMenus == {Quorum, Approval, Silence, Panic, Quiet}
MCDevices == {Device("d"), Device("e")}

================================================================================

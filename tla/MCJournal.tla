------------------------------- MODULE MCJournal -------------------------------
(* Two instances that share nothing: a tree of two contents that grows and   *)
(* is changed in place, and logs of a server with a copy of it, witnessed.   *)
EXTENDS Journal

Ann == <<"org", "ann">>
Bob == <<"org", "bob">>

\* The second entry is written by a newer server; the last has no name to show.
MCEntries ==
  {<<Ann, "k1", "Active", "none">>, <<Ann, "k1", "Withdrawn", "none">>,
   <<Bob, "k2", "Active", "optional">>,
   <<<<"org", " ">>, "k1", "Active", "none">>}

MCWatchers == {<<"w1", "Directory">>, <<"w1", "Journal">>}
MCMaxSize == [l \in Logs |-> IF l = "Journal" THEN 4 ELSE 3]

Init == (TreeInit /\ Unused /\ inUse = "Journal") \/ (Unused /\ levels = <<>>)
Next == (TreeNext /\ UNCHANGED logvars) \/ (levels = <<>> /\ LogNext /\ UNCHANGED levels)
Spec == Init /\ [][Next]_<<levels, logvars>>

================================================================================

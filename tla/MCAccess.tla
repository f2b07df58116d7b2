------------------------------- MODULE MCAccess -------------------------------
(* Instances of AccessSession for TLC. *)
EXTENDS AccessSession

\* An author who allows viewing on leases of one second.
LeaseAuthor ==
  [deny_all EXCEPT !.actions = {"View"}, !.network = LeaseNetwork(1, 1),
                   !.max_opens = 3]

\* The same, for a second from the first opening.
FirstOpenAuthor == [LeaseAuthor EXCEPT !.validity = FromFirstOpen(1)]

\* A profile with terms far beyond the author's and a lower limit of opens.
Generous == [no_tightening EXCEPT !.max_opens = 1]

\* A profile that shortens the author's term from the first opening and lowers
\* the limit of opens.
ShorterFirstOpen == [no_tightening EXCEPT !.validity = FromFirstOpen(0), !.max_opens = 1]

\* A profile that asks for the network at every opening.
Strict == [no_tightening EXCEPT !.network = StrictOnline]

NoProfile == {None}
HardwareProfiles == {None, Generous}
FirstOpenProfiles == {None, ShorterFirstOpen}
StrictProfiles == {Strict}
NoBudget == {None}
SomeBudgets == {None, 1}

===============================================================================

------------------------------- MODULE Logins -------------------------------
(***************************************************************************)
(* What the refresh sessions of an account promise, whatever tokens are    *)
(* rotated between: a login is opened once, by a password, and is closed   *)
(* for good.  A closed login is not opened again by anything a tab still   *)
(* has in memory or in flight.                                             *)
(***************************************************************************)
CONSTANT Ids        \* the logins there can be

VARIABLE status     \* status[l]: "none", "open" or "closed"

Init == status = [l \in Ids |-> "none"]

Open(l) ==
  /\ status[l] = "none"
  /\ status' = [status EXCEPT ![l] = "open"]

\* Several logins may be closed at once: sign out everywhere else.
Close(ls) ==
  /\ \A l \in ls : status[l] = "open"
  /\ status' = [l \in Ids |-> IF l \in ls THEN "closed" ELSE status[l]]

Next ==
  \/ \E l \in Ids : Open(l)
  \/ \E ls \in SUBSET Ids : Close(ls)

Spec == Init /\ [][Next]_status

=============================================================================

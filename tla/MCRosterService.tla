--------------------------- MODULE MCRosterService ---------------------------
(* The constants of RosterService's TLC runs.                              *)
EXTENDS RosterService, TLC

\* Nobody is on the roster at the start.
NobodyEnrolled == [e \in {} |-> None]

\* One user is, and everyone is, with Client IDs of their own.
OneEnrolled == (CHOOSE e \in Emails : TRUE) :> (CHOOSE id \in Ids : TRUE)
AllEnrolled == CHOOSE f \in [Emails -> Ids] : \A d, e \in Emails : f[d] = f[e] => d = e
=============================================================================

------------------------- MODULE RotatingCredential -------------------------
(***************************************************************************)
(* What both keepers of a Zendesk credential promise, the token store of a *)
(* stdio process and the grants of the HTTP server: a refresh token is     *)
(* single-use, so one refresh at a time spends it, and only that refresh   *)
(* replaces it.  Credentials are numbered in the order Zendesk mints them. *)
(***************************************************************************)
EXTENDS Naturals

CONSTANT Shared   \* whether other processes write the same file

Absent == 0

VARIABLES held,      \* the credential in memory, or Absent
          spending,  \* whether a refresh is spending it
          stored     \* the credential in the file, or Absent

vars == <<held, spending, stored>>

Init == held \in Nat /\ spending = FALSE /\ stored \in Nat

\* A change of the credential is written through, unless the disk fails.
Write == stored' \in {stored, held'}

\* A sign-in brings a newer credential; it never overtakes a refresh.
Obtain == ~spending /\ ~spending' /\ held' \in Nat /\ held' > held /\ Write

Spend == held # Absent /\ ~spending /\ spending' /\ held' = held /\ Write

\* The refresh ends: with a newer credential, or with the old one kept.
Renew == spending /\ ~spending' /\ held' \in Nat /\ held' > held /\ Write
Keep == spending /\ ~spending' /\ UNCHANGED <<held, stored>>

Drop == held' = Absent /\ ~spending' /\ Write

\* A write of something else carries the credential to the file.
Flush == stored' = held /\ UNCHANGED <<held, spending>>

\* A restart goes back to the file.
Recover == ~spending' /\ held' \in {stored, Absent} /\ UNCHANGED stored

Foreign == Shared /\ stored' \in Nat /\ UNCHANGED <<held, spending>>

Next == Obtain \/ Spend \/ Renew \/ Keep \/ Drop \/ Flush \/ Recover \/ Foreign

\* A step of a system that keeps a credential among other things.
Step == [Next]_vars

Spec == Init /\ [][Next]_vars
=============================================================================

----------------------------- MODULE GrantFamily -----------------------------
(***************************************************************************)
(* What an OAuth grant family promises to the code that uses it, with no   *)
(* table, clock or request in sight: a family is issued once, holds one    *)
(* usable credential, trades that credential in for the next one, and once *)
(* closed (revoked, replayed, stranded by a lost exchange, purged) never   *)
(* comes back.  OAuthStore is shown to implement it.                       *)
(***************************************************************************)
CONSTANT Families

VARIABLE phase    \* phase[f]: where family f is in its life

Phases == {"unborn", "open", "exchanging", "closed"}

TypeOK == phase \in [Families -> Phases]

Init == phase = [f \in Families |-> "unborn"]

\* The family becomes durable together with its first credential.
Issue(f) ==
  /\ phase[f] = "unborn"
  /\ phase' = [phase EXCEPT ![f] = "open"]

\* The one usable credential is spent and an exchange of it is under way.
Exchange(f) ==
  /\ phase[f] = "open"
  /\ phase' = [phase EXCEPT ![f] = "exchanging"]

\* The exchange ends with the next credential.
Rotate(f) ==
  /\ phase[f] = "exchanging"
  /\ phase' = [phase EXCEPT ![f] = "open"]

\* Any number of families end together (one purge may end several).
Close(S) ==
  /\ \A f \in S : phase[f] \in {"open", "exchanging"}
  /\ phase' = [f \in Families |-> IF f \in S THEN "closed" ELSE phase[f]]

Next ==
  \/ \E f \in Families : Issue(f) \/ Exchange(f) \/ Rotate(f)
  \/ \E S \in SUBSET Families : Close(S)

Spec == Init /\ [][Next]_phase
=============================================================================
